---- MODULE Spec2Model ----
(***************************************************************************)
(* State-machine model of the mesh multisig program                        *)
(* (programs/mesh/src/lib.rs): one group (Ms account), its proposals       *)
(* (MsTransaction accounts) and their attached operations (MsInstruction   *)
(* accounts).  One action per program instruction.  A call whose account   *)
(* constraints or handler fail is rolled back by the runtime, so a failed  *)
(* call is a stuttering step; how a call would end is given by the         *)
(* ...Err operators, which follow the order of the account constraints.    *)
(***************************************************************************)
EXTENDS Integers, Sequences, FiniteSets, TLC

(***************************************************************************)
(* Bounds of the model.                                                    *)
(***************************************************************************)
\* member keys are 1..NumKeys
NumKeys == 2
\* cap on the group's transaction_index (number of proposals created)
MaxTx == 1
\* cap on a proposal's instruction_index (number of attached operations)
MaxIx == 2

(***************************************************************************)
(* Program constants.                                                      *)
(***************************************************************************)
U16_MAX == 65535

Keys == 1..NumKeys
\* principals that are never members: candidate external authorities
Admin == NumKeys + 1
Outsider == NumKeys + 2
Authorities == {Admin, Outsider}
Signers == Keys \cup Authorities

\* Option values: None is the empty tuple, Some(x) the 1-tuple
None == << >>
Some(x) == <<x>>
Unwrap(o) == o[1]
OK == "Ok"

(***************************************************************************)
(* Helpers on vectors of keys.                                             *)
(***************************************************************************)
Range(s) == {s[i] : i \in 1..Len(s)}

RECURSIVE InsertSorted(_, _)
InsertSorted(s, k) ==
    IF s = <<>> THEN <<k>>
    ELSE IF k <= Head(s) THEN <<k>> \o s
    ELSE <<Head(s)>> \o InsertSorted(Tail(s), k)

\* Vec::sort
RECURSIVE Sort(_)
Sort(s) == IF s = <<>> THEN <<>> ELSE InsertSorted(Sort(Tail(s)), Head(s))

\* Vec::dedup: drops consecutive repeated elements
RECURSIVE Dedup(_)
Dedup(s) ==
    IF Len(s) <= 1 THEN s
    ELSE IF s[1] = s[2] THEN Dedup(Tail(s))
    ELSE <<s[1]>> \o Dedup(Tail(s))

RemoveAt(s, i) == SubSeq(s, 1, i - 1) \o SubSeq(s, i + 1, Len(s))

\* all vectors over S of length at most n
SeqsUpTo(S, n) == UNION {[1..k -> S] : k \in 0..n}

(***************************************************************************)
(* Ms (state.rs): methods of the group record.                             *)
(***************************************************************************)
\* Ms::is_member: position of the key in keys, None when absent
is_member(ms, k) ==
    IF \E i \in 1..Len(ms.keys) : ms.keys[i] = k
    THEN Some(CHOOSE i \in 1..Len(ms.keys) : ms.keys[i] = k)
    ELSE None

\* Ms::init
Ms_init(external_authority, threshold, members) ==
    [ keys                   |-> members,
      threshold              |-> threshold,
      transaction_index      |-> 0,
      ms_change_index        |-> 0,
      allow_external_execute |-> FALSE,
      external_authority     |-> external_authority ]

\* Ms::add_member: inserts a new key, keeping keys sorted and unique
Ms_add_member(ms, k) ==
    IF is_member(ms, k) = None
    THEN [ms EXCEPT !.keys = InsertSorted(ms.keys, k)]
    ELSE ms

\* Ms::remove_member: removes the key when present
Ms_remove_member(ms, k) ==
    IF is_member(ms, k) # None
    THEN [ms EXCEPT !.keys = RemoveAt(ms.keys, Unwrap(is_member(ms, k)))]
    ELSE ms

\* Ms::change_threshold
Ms_change_threshold(ms, t) == [ms EXCEPT !.threshold = t]

\* Ms::set_change_index
Ms_set_change_index(ms, i) == [ms EXCEPT !.ms_change_index = i]

Res(e, ms) == [err |-> e, ms |-> ms]

(***************************************************************************)
(* Group instructions as functions from the group record (and arguments)   *)
(* to a result: err = OK and the new record, or the error and the record   *)
(* untouched.                                                              *)
(***************************************************************************)
\* MsAuth / MsAuthRealloc: the signer must be the group's external authority
MsAuthErr(ms, signer) ==
    IF ms.external_authority # signer THEN "InvalidExternalAuthority" ELSE OK

\* create: the group record produced from the arguments
create(external_authority, threshold, members) ==
    LET sorted == Dedup(Sort(members))
        total_members == Len(sorted)
    IN  IF total_members < 1 THEN Res("EmptyMembers", << >>)
        ELSE IF total_members > U16_MAX THEN Res("MaxMembersReached", << >>)
        ELSE IF threshold < 1 \/ threshold > total_members
             THEN Res("InvalidThreshold", << >>)
        ELSE Res(OK, Ms_init(external_authority, threshold, sorted))

\* add_member that does not stamp ms_change_index
add_member_NoBump(ms, new_member, realloc_ok) ==
    IF Len(ms.keys) >= U16_MAX THEN Res("MaxMembersReached", ms)
    ELSE IF ~realloc_ok THEN Res("ReallocFailed", ms)
    ELSE Res(OK, Ms_add_member(ms, new_member))

\* add_member; realloc_ok: the storage growth and its funding top-up, when
\* needed, went through
add_member(ms, new_member, realloc_ok) ==
    IF Len(ms.keys) >= U16_MAX THEN Res("MaxMembersReached", ms)
    ELSE IF ~realloc_ok THEN Res("ReallocFailed", ms)
    ELSE LET m1 == Ms_add_member(ms, new_member)
         IN  Res(OK, Ms_set_change_index(m1, m1.transaction_index))

\* remove_member that forgets to lower the threshold
remove_member_NoAdjust(ms, old_member) ==
    IF Len(ms.keys) = 1 THEN Res("CannotRemoveSoloMember", ms)
    ELSE LET m1 == Ms_remove_member(ms, old_member)
         IN  Res(OK, Ms_set_change_index(m1, m1.transaction_index))

\* remove_member without the check for the last member
remove_member_NoSoloCheck(ms, old_member) ==
    LET m1 == Ms_remove_member(ms, old_member)
        m2 == IF Len(m1.keys) < m1.threshold
              THEN Ms_change_threshold(m1, Len(m1.keys))
              ELSE m1
    IN  Res(OK, Ms_set_change_index(m2, m2.transaction_index))

\* remove_member that leaves the change index where it was
remove_member_NoStamp(ms, old_member) ==
    IF Len(ms.keys) = 1 THEN Res("CannotRemoveSoloMember", ms)
    ELSE LET m1 == Ms_remove_member(ms, old_member)
         IN  IF Len(m1.keys) < m1.threshold
             THEN Res(OK, Ms_change_threshold(m1, Len(m1.keys)))
             ELSE Res(OK, m1)

\* remove_member
remove_member(ms, old_member) ==
    IF Len(ms.keys) = 1 THEN Res("CannotRemoveSoloMember", ms)
    ELSE LET m1 == Ms_remove_member(ms, old_member)
             m2 == IF Len(m1.keys) < m1.threshold
                   THEN Ms_change_threshold(m1, Len(m1.keys))
                   ELSE m1
         IN  Res(OK, Ms_set_change_index(m2, m2.transaction_index))

\* change_threshold that stores the requested value as it is
change_threshold_NoClamp(ms, new_threshold) ==
    IF new_threshold < 1 THEN Res("InvalidThreshold", ms)
    ELSE LET m1 == Ms_change_threshold(ms, new_threshold)
         IN  Res(OK, Ms_set_change_index(m1, m1.transaction_index))

\* change_threshold
change_threshold(ms, new_threshold) ==
    IF Len(ms.keys) < new_threshold
    THEN LET m1 == Ms_change_threshold(ms, Len(ms.keys))
         IN  Res(OK, Ms_set_change_index(m1, m1.transaction_index))
    ELSE IF new_threshold < 1 THEN Res("InvalidThreshold", ms)
    ELSE LET m1 == Ms_change_threshold(ms, new_threshold)
         IN  Res(OK, Ms_set_change_index(m1, m1.transaction_index))

\* remove_member_and_change_threshold
remove_member_and_change_threshold(ms, old_member, new_threshold) ==
    LET r == remove_member(ms, old_member)
    IN  IF r.err # OK THEN Res(r.err, ms)
        ELSE LET c == change_threshold(r.ms, new_threshold)
             IN  IF c.err # OK THEN Res(c.err, ms) ELSE c

\* add_member_and_change_threshold
add_member_and_change_threshold(ms, new_member, new_threshold, realloc_ok) ==
    LET r == add_member(ms, new_member, realloc_ok)
    IN  IF r.err # OK THEN Res(r.err, ms)
        ELSE IF Len(r.ms.keys) < new_threshold
        THEN LET m1 == Ms_change_threshold(r.ms, Len(r.ms.keys))
             IN  Res(OK, Ms_set_change_index(m1, m1.transaction_index))
        ELSE IF new_threshold < 1 THEN Res("InvalidThreshold", ms)
        ELSE LET m1 == Ms_change_threshold(r.ms, new_threshold)
             IN  Res(OK, Ms_set_change_index(m1, m1.transaction_index))

(***************************************************************************)
(* MsTransaction and MsInstruction (state.rs): the proposal record, the    *)
(* operation record and their methods.                                     *)
(***************************************************************************)
Draft == "Draft"
Active == "Active"
ExecuteReady == "ExecuteReady"
Executed == "Executed"
Rejected == "Rejected"
Cancelled == "Cancelled"

Default == "Default"
Custom == "Custom"
AuthorityTypes == {Default, Custom}

\* Pubkey::find_program_address for the group authority of an index: the
\* bump is a fixed function of the seeds
AuthorityBump(authority_index) == 255 - authority_index

\* MsTransaction::init
MsTransaction_init(creator, transaction_index, authority_index, authority_bump) ==
    [ creator           |-> creator,
      transaction_index |-> transaction_index,
      authority_index   |-> authority_index,
      authority_bump    |-> authority_bump,
      status            |-> Draft,
      instruction_index |-> 0,
      executed_index    |-> 0,
      approved          |-> << >>,
      rejected          |-> << >>,
      cancelled         |-> << >> ]

\* position of a key in a sorted vector of keys (binary_search(..).ok())
IndexOf(v, k) ==
    IF \E i \in 1..Len(v) : v[i] = k
    THEN Some(CHOOSE i \in 1..Len(v) : v[i] = k)
    ELSE None

\* MsTransaction::activate
MsTransaction_activate(tx) == [tx EXCEPT !.status = Active]
\* MsTransaction::has_voted_approve / has_voted_reject / has_cancelled:
\* the position of the member's vote, None when the member has none
has_voted_approve(tx, member) == IndexOf(tx.approved, member)
has_voted_reject(tx, member) == IndexOf(tx.rejected, member)
has_cancelled(tx, member) == IndexOf(tx.cancelled, member)
\* MsTransaction::sign / reject / cancel: push the member's vote and sort
MsTransaction_sign(tx, member) == [tx EXCEPT !.approved = InsertSorted(@, member)]
MsTransaction_reject(tx, member) == [tx EXCEPT !.rejected = InsertSorted(@, member)]
MsTransaction_cancel(tx, member) == [tx EXCEPT !.cancelled = InsertSorted(@, member)]
\* MsTransaction::remove_reject / remove_approve: drop the vote at a position
MsTransaction_remove_reject(tx, ind) == [tx EXCEPT !.rejected = RemoveAt(@, ind)]
MsTransaction_remove_approve(tx, ind) == [tx EXCEPT !.approved = RemoveAt(@, ind)]
\* MsTransaction::ready_to_execute / set_rejected / set_cancelled / set_executed
MsTransaction_ready_to_execute(tx) == [tx EXCEPT !.status = ExecuteReady]
MsTransaction_set_rejected(tx) == [tx EXCEPT !.status = Rejected]
MsTransaction_set_cancelled(tx) == [tx EXCEPT !.status = Cancelled]
MsTransaction_set_executed(tx) == [tx EXCEPT !.status = Executed]

\* MsInstruction::init
MsInstruction_init(instruction_index, incoming, authority_index, authority_bump, authority_type) ==
    [ instruction_index |-> instruction_index,
      program_id        |-> incoming.program_id,
      keys              |-> incoming.keys,
      data              |-> incoming.data,
      authority_index   |-> authority_index,
      authority_bump    |-> authority_bump,
      authority_type    |-> authority_type,
      executed          |-> FALSE ]

\* MsInstruction::set_executed
MsInstruction_set_executed(ix) == [ix EXCEPT !.executed = TRUE]

(***************************************************************************)
(* Account constraints of the proposal instructions: the error a call      *)
(* ends with before its handler runs, OK when every constraint passes.     *)
(* Constraints are checked account by account in declaration order.        *)
(***************************************************************************)
\* CreateTransaction
CreateTransactionErr(ms, creator) ==
    IF is_member(ms, creator) = None THEN "KeyNotInMultisig" ELSE OK

\* AddInstruction without the status constraint
AddInstructionErr_NoStatus(ms, tx, creator) ==
    IF is_member(ms, creator) = None THEN "KeyNotInMultisig"
    ELSE IF creator # tx.creator THEN "ConstraintRaw"
    ELSE OK

\* AddInstruction
AddInstructionErr(ms, tx, creator) ==
    IF is_member(ms, creator) = None THEN "KeyNotInMultisig"
    ELSE IF creator # tx.creator THEN "ConstraintRaw"
    ELSE IF tx.status # Draft THEN "InvalidTransactionState"
    ELSE OK

\* ActivateTransaction without the check against ms_change_index
ActivateTransactionErr_NoDeprecation(ms, tx, creator) ==
    IF is_member(ms, creator) = None THEN "KeyNotInMultisig"
    ELSE IF creator # tx.creator THEN "ConstraintRaw"
    ELSE IF tx.status # Draft THEN "InvalidTransactionState"
    ELSE OK

\* ActivateTransaction open to every member
ActivateTransactionErr_AnyMember(ms, tx, creator) ==
    IF is_member(ms, creator) = None THEN "KeyNotInMultisig"
    ELSE IF tx.status # Draft THEN "InvalidTransactionState"
    ELSE IF ~(tx.transaction_index > ms.ms_change_index) THEN "DeprecatedTransaction"
    ELSE OK

\* ActivateTransaction
ActivateTransactionErr(ms, tx, creator) ==
    IF is_member(ms, creator) = None THEN "KeyNotInMultisig"
    ELSE IF creator # tx.creator THEN "ConstraintRaw"
    ELSE IF tx.status # Draft THEN "InvalidTransactionState"
    ELSE IF ~(tx.transaction_index > ms.ms_change_index) THEN "DeprecatedTransaction"
    ELSE OK

\* VoteTransaction accepting a proposal created right at the last change
VoteTransactionErr_OffByOne(ms, tx, member) ==
    IF is_member(ms, member) = None THEN "KeyNotInMultisig"
    ELSE IF tx.status # Active THEN "InvalidTransactionState"
    ELSE IF ~(tx.transaction_index >= ms.ms_change_index) THEN "DeprecatedTransaction"
    ELSE OK

\* VoteTransaction without the membership constraint
VoteTransactionErr_NoMembership(ms, tx, member) ==
    IF tx.status # Active THEN "InvalidTransactionState"
    ELSE IF ~(tx.transaction_index > ms.ms_change_index) THEN "DeprecatedTransaction"
    ELSE OK

\* VoteTransaction
VoteTransactionErr(ms, tx, member) ==
    IF is_member(ms, member) = None THEN "KeyNotInMultisig"
    ELSE IF tx.status # Active THEN "InvalidTransactionState"
    ELSE IF ~(tx.transaction_index > ms.ms_change_index) THEN "DeprecatedTransaction"
    ELSE OK

\* CancelTransaction without the status constraint
CancelTransactionErr_NoStatus(ms, tx, member) ==
    IF is_member(ms, member) = None THEN "KeyNotInMultisig"
    ELSE OK

\* CancelTransaction
CancelTransactionErr(ms, tx, member) ==
    IF is_member(ms, member) = None THEN "KeyNotInMultisig"
    ELSE IF tx.status # ExecuteReady THEN "InvalidTransactionState"
    ELSE OK

\* ExecuteTransaction without the check of executed_index
ExecuteTransactionErr_NoPartial(ms, tx, member) ==
    IF ~(is_member(ms, member) # None \/ ms.allow_external_execute) THEN "KeyNotInMultisig"
    ELSE IF tx.status # ExecuteReady THEN "InvalidTransactionState"
    ELSE OK

\* ExecuteTransaction
ExecuteTransactionErr(ms, tx, member) ==
    IF ~(is_member(ms, member) # None \/ ms.allow_external_execute) THEN "KeyNotInMultisig"
    ELSE IF tx.status # ExecuteReady THEN "InvalidTransactionState"
    ELSE IF ~(tx.executed_index < 1) THEN "PartialExecution"
    ELSE OK

\* ExecuteInstruction open to members only, whatever allow_external_execute
ExecuteInstructionErr_MembersOnly(ms, tx, ix_key, ix, member) ==
    IF is_member(ms, member) = None THEN "KeyNotInMultisig"
    ELSE IF tx.status # ExecuteReady THEN "InvalidTransactionState"
    ELSE IF ix_key # <<tx.transaction_index, tx.executed_index + 1>> THEN "ConstraintSeeds"
    ELSE IF ix.executed THEN "InvalidInstructionAccount"
    ELSE IF ix.instruction_index # tx.executed_index + 1 THEN "InvalidInstructionAccount"
    ELSE OK

\* ExecuteInstruction; ix_key = <<t, k>> is the address of the supplied
\* operation record (operation k of proposal t) and ix its content
ExecuteInstructionErr(ms, tx, ix_key, ix, member) ==
    IF ~(is_member(ms, member) # None \/ ms.allow_external_execute) THEN "KeyNotInMultisig"
    ELSE IF tx.status # ExecuteReady THEN "InvalidTransactionState"
    ELSE IF ix_key # <<tx.transaction_index, tx.executed_index + 1>> THEN "ConstraintSeeds"
    ELSE IF ix.executed THEN "InvalidInstructionAccount"
    ELSE IF ix.instruction_index # tx.executed_index + 1 THEN "InvalidInstructionAccount"
    ELSE OK

(***************************************************************************)
(* Handlers of the proposal instructions, as functions of the records      *)
(* they are given.                                                         *)
(***************************************************************************)
\* create_transaction that numbers the proposal before advancing the counter
create_transaction_StaleIndex(ms, creator, authority_index) ==
    LET authority_bump == AuthorityBump(authority_index)
        m1 == [ms EXCEPT !.transaction_index = @ + 1]
    IN  [ ms |-> m1,
          tx |-> MsTransaction_init(creator, ms.transaction_index,
                                    authority_index, authority_bump) ]

\* create_transaction: the group with its counter advanced and the new proposal
create_transaction(ms, creator, authority_index) ==
    LET authority_bump == AuthorityBump(authority_index)
        m1 == [ms EXCEPT !.transaction_index = @ + 1]
    IN  [ ms |-> m1,
          tx |-> MsTransaction_init(creator, m1.transaction_index,
                                    authority_index, authority_bump) ]

\* activate_transaction
activate_transaction(tx) == MsTransaction_activate(tx)

\* add_instruction that keeps the requested type when it inherits the
\* proposal's authority
add_instruction_KeepRequestedType(tx, incoming, authority_index, authority_bump, authority_type) ==
    LET inherit == authority_index = None /\ authority_bump = None
        ix_authority_index == IF inherit THEN Some(tx.authority_index) ELSE authority_index
        ix_authority_bump == IF inherit THEN Some(tx.authority_bump) ELSE authority_bump
    IN  IF authority_type # Default /\ authority_type # Custom
        THEN [err |-> "InvalidAuthorityType", tx |-> tx, ix |-> << >>]
        ELSE IF \/ (authority_index = None /\ authority_bump # None)
                \/ (authority_index # None /\ authority_bump = None)
        THEN [err |-> "InvalidAuthorityIndex", tx |-> tx, ix |-> << >>]
        ELSE LET t1 == [tx EXCEPT !.instruction_index = @ + 1]
             IN  [ err |-> OK,
                   tx  |-> t1,
                   ix  |-> MsInstruction_init(t1.instruction_index, incoming,
                              ix_authority_index, ix_authority_bump, authority_type) ]

\* add_instruction: err, the proposal and the operation record created
add_instruction(tx, incoming, authority_index, authority_bump, authority_type) ==
    LET inherit == authority_index = None /\ authority_bump = None
        ix_authority_index == IF inherit THEN Some(tx.authority_index) ELSE authority_index
        ix_authority_bump == IF inherit THEN Some(tx.authority_bump) ELSE authority_bump
        ix_authority_type == IF inherit THEN Default ELSE authority_type
    IN  IF authority_type # Default /\ authority_type # Custom
        THEN [err |-> "InvalidAuthorityType", tx |-> tx, ix |-> << >>]
        ELSE IF \/ (authority_index = None /\ authority_bump # None)
                \/ (authority_index # None /\ authority_bump = None)
        THEN [err |-> "InvalidAuthorityIndex", tx |-> tx, ix |-> << >>]
        ELSE LET t1 == [tx EXCEPT !.instruction_index = @ + 1]
             IN  [ err |-> OK,
                   tx  |-> t1,
                   ix  |-> MsInstruction_init(t1.instruction_index, incoming,
                              ix_authority_index, ix_authority_bump, ix_authority_type) ]

\* approve_transaction that counts the quorum one vote too early
approve_transaction_OffByOne(ms, tx, member) ==
    LET t1 == IF has_voted_reject(tx, member) # None
              THEN MsTransaction_remove_reject(tx, Unwrap(has_voted_reject(tx, member)))
              ELSE tx
        t2 == IF has_voted_approve(t1, member) = None
              THEN MsTransaction_sign(t1, member) ELSE t1
    IN  IF Len(t2.approved) + 1 >= ms.threshold
        THEN MsTransaction_ready_to_execute(t2)
        ELSE t2

\* approve_transaction that leaves a standing reject vote in place
approve_transaction_KeepReject(ms, tx, member) ==
    LET t2 == IF has_voted_approve(tx, member) = None
              THEN MsTransaction_sign(tx, member) ELSE tx
    IN  IF Len(t2.approved) >= ms.threshold
        THEN MsTransaction_ready_to_execute(t2)
        ELSE t2

\* approve_transaction that wants more approvals than the threshold
approve_transaction_StrictQuorum(ms, tx, member) ==
    LET t1 == IF has_voted_reject(tx, member) # None
              THEN MsTransaction_remove_reject(tx, Unwrap(has_voted_reject(tx, member)))
              ELSE tx
        t2 == IF has_voted_approve(t1, member) = None
              THEN MsTransaction_sign(t1, member) ELSE t1
    IN  IF Len(t2.approved) > ms.threshold
        THEN MsTransaction_ready_to_execute(t2)
        ELSE t2

\* approve_transaction
approve_transaction(ms, tx, member) ==
    LET t1 == IF has_voted_reject(tx, member) # None
              THEN MsTransaction_remove_reject(tx, Unwrap(has_voted_reject(tx, member)))
              ELSE tx
        t2 == IF has_voted_approve(t1, member) = None
              THEN MsTransaction_sign(t1, member) ELSE t1
    IN  IF Len(t2.approved) >= ms.threshold
        THEN MsTransaction_ready_to_execute(t2)
        ELSE t2

\* reject_transaction that rejects already at the cutoff
reject_transaction_AtCutoff(ms, tx, member) ==
    LET t1 == IF has_voted_approve(tx, member) # None
              THEN MsTransaction_remove_approve(tx, Unwrap(has_voted_approve(tx, member)))
              ELSE tx
        t2 == IF has_voted_reject(t1, member) = None
              THEN MsTransaction_reject(t1, member) ELSE t1
        cutoff == Len(ms.keys) - ms.threshold
    IN  IF Len(t2.rejected) >= cutoff
        THEN MsTransaction_set_rejected(t2)
        ELSE t2

\* reject_transaction
reject_transaction(ms, tx, member) ==
    LET t1 == IF has_voted_approve(tx, member) # None
              THEN MsTransaction_remove_approve(tx, Unwrap(has_voted_approve(tx, member)))
              ELSE tx
        t2 == IF has_voted_reject(t1, member) = None
              THEN MsTransaction_reject(t1, member) ELSE t1
        cutoff == Len(ms.keys) - ms.threshold
    IN  IF Len(t2.rejected) > cutoff
        THEN MsTransaction_set_rejected(t2)
        ELSE t2

\* cancel_transaction that records the vote without looking for an earlier one
cancel_transaction_NoCheck(ms, tx, member) ==
    LET t1 == MsTransaction_cancel(tx, member)
    IN  IF Len(t1.cancelled) >= ms.threshold
        THEN MsTransaction_set_cancelled(t1)
        ELSE t1

\* cancel_transaction
cancel_transaction(ms, tx, member) ==
    LET t1 == IF has_cancelled(tx, member) = None
              THEN MsTransaction_cancel(tx, member) ELSE tx
    IN  IF Len(t1.cancelled) >= ms.threshold
        THEN MsTransaction_set_cancelled(t1)
        ELSE t1

(***************************************************************************)
(* Delegated execution.  Public keys are triples: <<"ix", t, k>> is the    *)
(* derived address of operation record k of proposal t (owned by this      *)
(* program), <<"ms", 0, 0>> the account of the group record (owned by this *)
(* program too), <<"key", n, 0>> any other account or program.             *)
(***************************************************************************)
IxPda(t, k) == <<"ix", t, k>>
Pubkey(n) == <<"key", n, 0>>
OwnedByProgram(key) == key[1] \in {"ix", "ms"}

\* the seeds handed to invoke_signed for one operation: the group-scoped
\* authority alone (Default), or the proposal-scoped authority together
\* with the proposal's group-scoped authority (Custom)
SignerSeeds(t, tx, ms_ix) ==
    IF ms_ix.authority_type = Default
    THEN { [ seed  |-> "authority", scope |-> 0,
             index |-> Unwrap(ms_ix.authority_index),
             bump  |-> Unwrap(ms_ix.authority_bump) ] }
    ELSE { [ seed  |-> "ix_authority", scope |-> t,
             index |-> Unwrap(ms_ix.authority_index),
             bump  |-> Unwrap(ms_ix.authority_bump) ],
           [ seed  |-> "authority", scope |-> 0,
             index |-> tx.authority_index,
             bump  |-> tx.authority_bump ] }

\* one delegated invocation, as the outside world sees it
Invocation(t, tx, ms_ix, mode) ==
    [ ix |-> ms_ix.instruction_index, mode |-> mode,
      program_id |-> ms_ix.program_id, signers |-> SignerSeeds(t, tx, ms_ix) ]

\* the loop over the saved account keys: each next supplied account must
\* carry the saved key
KeysErr(accounts, pos, keys) ==
    LET bad == { j \in 1..Len(keys) :
                   \/ pos + j - 1 > Len(accounts)
                   \/ accounts[pos + j - 1] # keys[j] }
    IN  IF bad = {} THEN OK
        ELSE LET j0 == CHOOSE j \in bad : \A k \in bad : j <= k
             IN  IF pos + j0 - 1 > Len(accounts) THEN "NotEnoughAccountKeys"
                 ELSE "InvalidInstructionAccount"

\* the body of try_for_each in execute_transaction from operation i on,
\* reading the supplied accounts from position pos; fail_at is the
\* operation whose delegated invocation fails (0: none does)
RECURSIVE ExecuteBatch(_, _, _, _, _, _, _)
ExecuteBatch(t, tx, ixs, accounts, i, pos, fail_at) ==
    IF i > tx.instruction_index THEN OK
    ELSE IF pos > Len(accounts) THEN "NotEnoughAccountKeys"
    ELSE IF ~OwnedByProgram(accounts[pos]) THEN "InvalidInstructionAccount"
    ELSE IF accounts[pos] # IxPda(t, i) THEN "InvalidInstructionAccount"
    ELSE IF pos + 1 > Len(accounts) THEN "NotEnoughAccountKeys"
    ELSE IF ixs[i].program_id # accounts[pos + 1] THEN "InvalidInstructionAccount"
    ELSE IF KeysErr(accounts, pos + 2, ixs[i].keys) # OK
         THEN KeysErr(accounts, pos + 2, ixs[i].keys)
    ELSE IF fail_at = i THEN "InvokeFailed"
    ELSE ExecuteBatch(t, tx, ixs, accounts, i + 1, pos + 2 + Len(ixs[i].keys), fail_at)

\* execute_transaction whose delegated invocations are made without
\* propagating their error
execute_transaction_IgnoreInvokeError(t, tx, ixs, accounts, fail_at) ==
    IF tx.instruction_index < 1
    THEN [err |-> OK, tx |-> MsTransaction_set_executed(tx), calls |-> << >>]
    ELSE LET e == ExecuteBatch(t, tx, ixs, accounts, 1, 1, 0)
         IN  IF e # OK THEN [err |-> e, tx |-> tx, calls |-> << >>]
             ELSE [ err   |-> OK,
                    tx    |-> MsTransaction_set_executed(tx),
                    calls |-> [i \in 1..tx.instruction_index |->
                                 Invocation(t, tx, ixs[i], "atomic")] ]

\* execute_transaction that refuses a proposal without operations
execute_transaction_RequireOps(t, tx, ixs, accounts, fail_at) ==
    IF tx.instruction_index < 1
    THEN [err |-> "NotEnoughAccountKeys", tx |-> tx, calls |-> << >>]
    ELSE LET e == ExecuteBatch(t, tx, ixs, accounts, 1, 1, fail_at)
         IN  IF e # OK THEN [err |-> e, tx |-> tx, calls |-> << >>]
             ELSE [ err   |-> OK,
                    tx    |-> MsTransaction_set_executed(tx),
                    calls |-> [i \in 1..tx.instruction_index |->
                                 Invocation(t, tx, ixs[i], "atomic")] ]

\* execute_transaction that advances executed_index to the last operation
execute_transaction_SetsIndex(t, tx, ixs, accounts, fail_at) ==
    IF tx.instruction_index < 1
    THEN [err |-> OK, tx |-> MsTransaction_set_executed(tx), calls |-> << >>]
    ELSE LET e == ExecuteBatch(t, tx, ixs, accounts, 1, 1, fail_at)
         IN  IF e # OK THEN [err |-> e, tx |-> tx, calls |-> << >>]
             ELSE [ err   |-> OK,
                    tx    |-> MsTransaction_set_executed(
                                 [tx EXCEPT !.executed_index = tx.instruction_index]),
                    calls |-> [i \in 1..tx.instruction_index |->
                                 Invocation(t, tx, ixs[i], "atomic")] ]

\* execute_transaction: err, the proposal, and the invocations performed
execute_transaction(t, tx, ixs, accounts, fail_at) ==
    IF tx.instruction_index < 1
    THEN [err |-> OK, tx |-> MsTransaction_set_executed(tx), calls |-> << >>]
    ELSE LET e == ExecuteBatch(t, tx, ixs, accounts, 1, 1, fail_at)
         IN  IF e # OK THEN [err |-> e, tx |-> tx, calls |-> << >>]
             ELSE [ err   |-> OK,
                    tx    |-> MsTransaction_set_executed(tx),
                    calls |-> [i \in 1..tx.instruction_index |->
                                 Invocation(t, tx, ixs[i], "atomic")] ]

\* execute_instruction that does not advance executed_index
execute_instruction_NoAdvance(t, tx, ms_ix, accounts, invoke_ok) ==
    LET fail(e) == [err |-> e, tx |-> tx, ix |-> ms_ix, calls |-> << >>]
    IN  IF Len(accounts) < 1 THEN fail("NotEnoughAccountKeys")
        ELSE IF accounts[1] # ms_ix.program_id THEN fail("InvalidInstructionAccount")
        ELSE IF KeysErr(accounts, 2, ms_ix.keys) # OK
             THEN fail(KeysErr(accounts, 2, ms_ix.keys))
        ELSE IF ~invoke_ok THEN fail("InvokeFailed")
        ELSE LET i1 == MsInstruction_set_executed(ms_ix)
                 t2 == IF i1.instruction_index = tx.instruction_index
                       THEN MsTransaction_set_executed(tx) ELSE tx
             IN  [ err |-> OK, tx |-> t2, ix |-> i1,
                   calls |-> << Invocation(t, tx, ms_ix, "step") >> ]

\* execute_instruction whose delegated invocation is made without
\* propagating its error
execute_instruction_IgnoreInvokeError(t, tx, ms_ix, accounts, invoke_ok) ==
    LET fail(e) == [err |-> e, tx |-> tx, ix |-> ms_ix, calls |-> << >>]
    IN  IF Len(accounts) < 1 THEN fail("NotEnoughAccountKeys")
        ELSE IF accounts[1] # ms_ix.program_id THEN fail("InvalidInstructionAccount")
        ELSE IF KeysErr(accounts, 2, ms_ix.keys) # OK
             THEN fail(KeysErr(accounts, 2, ms_ix.keys))
        ELSE LET i1 == MsInstruction_set_executed(ms_ix)
                 t1 == [tx EXCEPT !.executed_index = ms_ix.instruction_index]
                 t2 == IF i1.instruction_index = t1.instruction_index
                       THEN MsTransaction_set_executed(t1) ELSE t1
             IN  [ err |-> OK, tx |-> t2, ix |-> i1,
                   calls |-> IF invoke_ok THEN << Invocation(t, tx, ms_ix, "step") >>
                             ELSE << >> ]

\* execute_instruction that compares the step with executed_index, not
\* with instruction_index, to decide that the proposal is finished
execute_instruction_EarlyExecuted(t, tx, ms_ix, accounts, invoke_ok) ==
    LET fail(e) == [err |-> e, tx |-> tx, ix |-> ms_ix, calls |-> << >>]
    IN  IF Len(accounts) < 1 THEN fail("NotEnoughAccountKeys")
        ELSE IF accounts[1] # ms_ix.program_id THEN fail("InvalidInstructionAccount")
        ELSE IF KeysErr(accounts, 2, ms_ix.keys) # OK
             THEN fail(KeysErr(accounts, 2, ms_ix.keys))
        ELSE IF ~invoke_ok THEN fail("InvokeFailed")
        ELSE LET i1 == MsInstruction_set_executed(ms_ix)
                 t1 == [tx EXCEPT !.executed_index = ms_ix.instruction_index]
                 t2 == IF i1.instruction_index = t1.executed_index
                       THEN MsTransaction_set_executed(t1) ELSE t1
             IN  [ err |-> OK, tx |-> t2, ix |-> i1,
                   calls |-> << Invocation(t, tx, ms_ix, "step") >> ]

\* execute_instruction: err, the proposal, the operation record, and the
\* invocation performed
execute_instruction(t, tx, ms_ix, accounts, invoke_ok) ==
    LET fail(e) == [err |-> e, tx |-> tx, ix |-> ms_ix, calls |-> << >>]
    IN  IF Len(accounts) < 1 THEN fail("NotEnoughAccountKeys")
        ELSE IF accounts[1] # ms_ix.program_id THEN fail("InvalidInstructionAccount")
        ELSE IF KeysErr(accounts, 2, ms_ix.keys) # OK
             THEN fail(KeysErr(accounts, 2, ms_ix.keys))
        ELSE IF ~invoke_ok THEN fail("InvokeFailed")
        ELSE LET i1 == MsInstruction_set_executed(ms_ix)
                 t1 == [tx EXCEPT !.executed_index = ms_ix.instruction_index]
                 t2 == IF i1.instruction_index = t1.instruction_index
                       THEN MsTransaction_set_executed(t1) ELSE t1
             IN  [ err |-> OK, tx |-> t2, ix |-> i1,
                   calls |-> << Invocation(t, tx, ms_ix, "step") >> ]

(***************************************************************************)
(* State.                                                                  *)
(***************************************************************************)
VARIABLES
    multisig,     \* the group record (Ms)
    transaction,  \* transaction[t]: proposal with transaction_index t
    instruction,  \* instruction[t][k]: operation record k of proposal t
    invoked       \* invoked[t]: the delegated invocations performed for t

vars == <<multisig, transaction, instruction, invoked>>

TxIds == 1..Len(transaction)

\* the values the callers supply
Thresholds == 0..(NumKeys + 1)
AuthorityIndexes == {1}
Incoming == { [program_id |-> Pubkey(1), keys |-> <<Pubkey(2)>>, data |-> << >>] }
\* authority arguments of add_instruction: <<index, bump, type>>
IxAuthorityArgs ==
    { <<None, None, Default>>, <<None, None, Custom>>,
      <<Some(2), Some(AuthorityBump(2)), Custom>>,
      <<Some(2), None, Default>>, <<None, Some(AuthorityBump(2)), Custom>> }

\* the account list a careful caller passes to execute one operation
StepAccounts(ms_ix) == <<ms_ix.program_id>> \o ms_ix.keys

\* the account list a careful caller passes to execute_transaction
RECURSIVE BatchAccounts(_, _, _)
BatchAccounts(t, ixs, i) ==
    IF i > Len(ixs) THEN << >>
    ELSE <<IxPda(t, i)>> \o StepAccounts(ixs[i]) \o BatchAccounts(t, ixs, i + 1)

\* keys a caller may put in an account list
SuppliedKeys ==
    {Pubkey(1), Pubkey(2), Pubkey(3)} \cup
    {IxPda(t, k) : t \in 1..MaxTx, k \in 1..MaxIx}

\* the careful list, its proper prefixes, and the lists differing from it
\* in one position
Supplied(honest) ==
    {honest}
      \cup {SubSeq(honest, 1, n) : n \in 0..(Len(honest) - 1)}
      \cup {[honest EXCEPT ![p] = k] : p \in 1..Len(honest), k \in SuppliedKeys}

Init ==
    /\ \E external_authority \in Authorities, threshold \in Thresholds,
          members \in SeqsUpTo(Keys, NumKeys) :
          /\ create(external_authority, threshold, members).err = OK
          /\ multisig = create(external_authority, threshold, members).ms
    /\ transaction = << >>
    /\ instruction = << >>
    /\ invoked = << >>

(***************************************************************************)
(* Group administration.                                                   *)
(***************************************************************************)
AddMember(signer, new_member, realloc_ok) ==
    /\ MsAuthErr(multisig, signer) = OK
    /\ add_member(multisig, new_member, realloc_ok).err = OK
    /\ multisig' = add_member(multisig, new_member, realloc_ok).ms
    /\ UNCHANGED <<transaction, instruction, invoked>>

RemoveMember(signer, old_member) ==
    /\ MsAuthErr(multisig, signer) = OK
    /\ remove_member(multisig, old_member).err = OK
    /\ multisig' = remove_member(multisig, old_member).ms
    /\ UNCHANGED <<transaction, instruction, invoked>>

RemoveMemberAndChangeThreshold(signer, old_member, new_threshold) ==
    /\ MsAuthErr(multisig, signer) = OK
    /\ remove_member_and_change_threshold(multisig, old_member, new_threshold).err = OK
    /\ multisig' = remove_member_and_change_threshold(multisig, old_member, new_threshold).ms
    /\ UNCHANGED <<transaction, instruction, invoked>>

AddMemberAndChangeThreshold(signer, new_member, new_threshold, realloc_ok) ==
    /\ MsAuthErr(multisig, signer) = OK
    /\ add_member_and_change_threshold(multisig, new_member, new_threshold, realloc_ok).err = OK
    /\ multisig' = add_member_and_change_threshold(multisig, new_member, new_threshold, realloc_ok).ms
    /\ UNCHANGED <<transaction, instruction, invoked>>

ChangeThreshold(signer, new_threshold) ==
    /\ MsAuthErr(multisig, signer) = OK
    /\ change_threshold(multisig, new_threshold).err = OK
    /\ multisig' = change_threshold(multisig, new_threshold).ms
    /\ UNCHANGED <<transaction, instruction, invoked>>

SetExternalExecute(signer, setting) ==
    /\ MsAuthErr(multisig, signer) = OK
    /\ multisig' = [multisig EXCEPT !.allow_external_execute = setting]
    /\ UNCHANGED <<transaction, instruction, invoked>>

ChangeExternalAuthority(signer, new_authority) ==
    /\ MsAuthErr(multisig, signer) = OK
    /\ multisig' = [multisig EXCEPT !.external_authority = new_authority]
    /\ UNCHANGED <<transaction, instruction, invoked>>

(***************************************************************************)
(* Proposal lifecycle.                                                     *)
(***************************************************************************)
CreateTransaction(creator, authority_index) ==
    /\ multisig.transaction_index < MaxTx
    /\ CreateTransactionErr(multisig, creator) = OK
    /\ LET r == create_transaction(multisig, creator, authority_index)
       IN  /\ multisig' = r.ms
           /\ transaction' = Append(transaction, r.tx)
           /\ instruction' = Append(instruction, << >>)
           /\ invoked' = Append(invoked, << >>)

AddInstruction(creator, t, incoming, auth) ==
    /\ transaction[t].instruction_index < MaxIx
    /\ AddInstructionErr(multisig, transaction[t], creator) = OK
    /\ LET r == add_instruction(transaction[t], incoming, auth[1], auth[2], auth[3])
       IN  /\ r.err = OK
           /\ transaction' = [transaction EXCEPT ![t] = r.tx]
           /\ instruction' = [instruction EXCEPT ![t] = Append(@, r.ix)]
    /\ UNCHANGED <<multisig, invoked>>

ActivateTransaction(creator, t) ==
    /\ ActivateTransactionErr(multisig, transaction[t], creator) = OK
    /\ transaction' = [transaction EXCEPT ![t] = activate_transaction(@)]
    /\ UNCHANGED <<multisig, instruction, invoked>>

ApproveTransaction(member, t) ==
    /\ VoteTransactionErr(multisig, transaction[t], member) = OK
    /\ transaction' = [transaction EXCEPT ![t] = approve_transaction(multisig, @, member)]
    /\ UNCHANGED <<multisig, instruction, invoked>>

RejectTransaction(member, t) ==
    /\ VoteTransactionErr(multisig, transaction[t], member) = OK
    \* checked_sub(..).unwrap() of the cutoff
    /\ Len(multisig.keys) >= multisig.threshold
    /\ transaction' = [transaction EXCEPT ![t] = reject_transaction(multisig, @, member)]
    /\ UNCHANGED <<multisig, instruction, invoked>>

CancelTransaction(member, t) ==
    /\ CancelTransactionErr(multisig, transaction[t], member) = OK
    /\ transaction' = [transaction EXCEPT ![t] = cancel_transaction(multisig, @, member)]
    /\ UNCHANGED <<multisig, instruction, invoked>>

\* accounts: the account list supplied; fail_at: the operation whose
\* delegated invocation fails (0: none).  The group record is reloaded at
\* the end; no delegated invocation of the model writes to it, so it is
\* read back as it was
ExecuteTransaction(member, t) ==
    /\ ExecuteTransactionErr(multisig, transaction[t], member) = OK
    /\ \E accounts \in Supplied(BatchAccounts(t, instruction[t], 1)), fail_at \in 0..MaxIx :
          LET r == execute_transaction(t, transaction[t], instruction[t], accounts, fail_at)
          IN  /\ r.err = OK
              /\ transaction' = [transaction EXCEPT ![t] = r.tx]
              /\ invoked' = [invoked EXCEPT ![t] = @ \o r.calls]
    /\ UNCHANGED <<multisig, instruction>>

\* ix_key: the address of the operation record supplied; accounts: the
\* account list supplied; invoke_ok: whether the delegated invocation succeeds
ExecuteInstruction(member, t, ix_key) ==
    /\ ix_key[1] \in DOMAIN instruction
    /\ ix_key[2] \in DOMAIN instruction[ix_key[1]]
    /\ LET ms_ix == instruction[ix_key[1]][ix_key[2]]
       IN  /\ ExecuteInstructionErr(multisig, transaction[t], ix_key, ms_ix, member) = OK
           /\ \E accounts \in Supplied(StepAccounts(ms_ix)), invoke_ok \in BOOLEAN :
                 LET r == execute_instruction(t, transaction[t], ms_ix, accounts, invoke_ok)
                 IN  /\ r.err = OK
                     /\ transaction' = [transaction EXCEPT ![t] = r.tx]
                     /\ instruction' = [instruction EXCEPT ![ix_key[1]][ix_key[2]] = r.ix]
                     /\ invoked' = [invoked EXCEPT ![t] = @ \o r.calls]
    /\ UNCHANGED multisig

Next ==
    \/ \E s \in Signers, k \in Keys, b \in BOOLEAN : AddMember(s, k, b)
    \/ \E s \in Signers, k \in Keys : RemoveMember(s, k)
    \/ \E s \in Signers, k \in Keys, n \in Thresholds :
          RemoveMemberAndChangeThreshold(s, k, n)
    \/ \E s \in Signers, k \in Keys, n \in Thresholds, b \in BOOLEAN :
          AddMemberAndChangeThreshold(s, k, n, b)
    \/ \E s \in Signers, n \in Thresholds : ChangeThreshold(s, n)
    \/ \E s \in Signers, b \in BOOLEAN : SetExternalExecute(s, b)
    \/ \E s \in Signers, a \in Authorities : ChangeExternalAuthority(s, a)
    \/ \E s \in Signers, a \in AuthorityIndexes : CreateTransaction(s, a)
    \/ \E s \in Signers, t \in TxIds, inc \in Incoming, auth \in IxAuthorityArgs :
          AddInstruction(s, t, inc, auth)
    \/ \E s \in Signers, t \in TxIds : ActivateTransaction(s, t)
    \/ \E s \in Signers, t \in TxIds : ApproveTransaction(s, t)
    \/ \E s \in Signers, t \in TxIds : RejectTransaction(s, t)
    \/ \E s \in Signers, t \in TxIds : CancelTransaction(s, t)
    \/ \E s \in Signers, t \in TxIds : ExecuteTransaction(s, t)
    \/ \E s \in Signers, t \in TxIds, t2 \in TxIds, k \in 1..MaxIx :
          ExecuteInstruction(s, t, <<t2, k>>)

Spec == Init /\ [][Next]_vars

(***************************************************************************)
(* Group administration on its own, over a universe of one more key: the   *)
(* group after create, then any sequence of administrative calls (and      *)
(* create_transaction, which moves the index the changes are stamped       *)
(* with).                                                                  *)
(***************************************************************************)
AdminKeys == 1..(NumKeys + 1)
AdminAuthority == NumKeys + 2
AdminSigners == AdminKeys \cup {AdminAuthority}
AdminThresholds == 0..(NumKeys + 2)

InitAdmin ==
    /\ \E threshold \in AdminThresholds, members \in SeqsUpTo(AdminKeys, NumKeys + 1) :
          /\ create(AdminAuthority, threshold, members).err = OK
          /\ multisig = create(AdminAuthority, threshold, members).ms
    /\ transaction = << >>
    /\ instruction = << >>
    /\ invoked = << >>

NextAdmin ==
    \/ \E s \in AdminSigners, k \in AdminKeys, b \in BOOLEAN : AddMember(s, k, b)
    \/ \E s \in AdminSigners, k \in AdminKeys : RemoveMember(s, k)
    \/ \E s \in AdminSigners, k \in AdminKeys, n \in AdminThresholds :
          RemoveMemberAndChangeThreshold(s, k, n)
    \/ \E s \in AdminSigners, k \in AdminKeys, n \in AdminThresholds, b \in BOOLEAN :
          AddMemberAndChangeThreshold(s, k, n, b)
    \/ \E s \in AdminSigners, n \in AdminThresholds : ChangeThreshold(s, n)
    \/ \E s \in AdminSigners, b \in BOOLEAN : SetExternalExecute(s, b)
    \/ \E s \in AdminSigners, a \in AuthorityIndexes : CreateTransaction(s, a)
    \/ \E s \in AdminSigners, t \in TxIds : ActivateTransaction(s, t)

SpecAdmin == InitAdmin /\ [][NextAdmin]_vars

(***************************************************************************)
(* Properties.                                                             *)
(***************************************************************************)
Members == Range(multisig.keys)

\* C1: in every state reachable by create followed by any sequence of
\* add_member, remove_member, remove_member_and_change_threshold,
\* add_member_and_change_threshold and change_threshold calls, successful
\* or failed, 1 <= threshold <= |members| and |members| >= 1.
C1_ThresholdWithinMembers ==
    /\ Cardinality(Members) >= 1
    /\ 1 <= multisig.threshold
    /\ multisig.threshold <= Cardinality(Members)

\* the creator of a proposal has since been removed from a group whose
\* threshold was the full member count, and the threshold followed it down
C1_Witness ==
    /\ \E t \in TxIds : transaction[t].creator \notin Members
    /\ Cardinality(Members) = NumKeys
    /\ multisig.threshold = NumKeys

\* a proposal is deprecated when the group changed at or after its creation
Deprecated(t) == transaction[t].transaction_index <= multisig.ms_change_index
Approved(t) == Range(transaction[t].approved)
RejectedBy(t) == Range(transaction[t].rejected)
CancelledBy(t) == Range(transaction[t].cancelled)

\* C2: a proposal becomes Executed only from ExecuteReady, and becomes
\* ExecuteReady only from Active, by an approve_transaction call of a
\* current member at whose completion |approved| >= the group's threshold
\* of that moment; every approval recorded is recorded for a principal that
\* is a member of the group at that moment; a new proposal starts in Draft
\* with no approvals.
C2_ExecutedOnlyAfterQuorum ==
    [][ /\ \A t \in TxIds :
              LET a == transaction[t]
                  b == transaction'[t]
              IN  /\ (b.status = Executed /\ a.status # Executed)
                        => a.status = ExecuteReady
                  /\ (b.status = ExecuteReady /\ a.status # ExecuteReady)
                        => /\ a.status = Active
                           /\ multisig' = multisig
                           /\ Cardinality(Range(b.approved)) >= multisig.threshold
                           /\ \E m \in Members : b = approve_transaction(multisig, a, m)
                  /\ (Range(b.approved) \ Range(a.approved)) \subseteq Members
        /\ \A t \in (DOMAIN transaction') \ TxIds :
              /\ transaction'[t].status = Draft
              /\ transaction'[t].approved = << >>
      ]_vars

\* a proposal approved by every key of the universe has been executed and
\* its operations invoked
C2_Witness ==
    \E t \in TxIds :
       /\ transaction[t].status = Executed
       /\ Approved(t) = Keys
       /\ invoked[t] # << >>

\* C3 as stated: once transaction_index <= ms_change_index holds for a
\* proposal, whatever its status (ExecuteReady included), the proposal is
\* never brought to Executed and no delegated invocation is performed for it.
C3_Original ==
    [][ \A t \in TxIds :
           (Deprecated(t) /\ transaction[t].status # Executed)
              => /\ transaction'[t].status # Executed
                 /\ invoked'[t] = invoked[t]
      ]_vars

\* C3 as amended: a proposal that is Draft or Active while
\* transaction_index <= ms_change_index keeps that status for ever (the
\* inequality, once true, stays true), so it never reaches Executed and no
\* delegated invocation is performed for it.
C3_DeprecatedBeforeQuorum ==
    [][ \A t \in TxIds :
           (Deprecated(t) /\ transaction[t].status \in {Draft, Active})
              => /\ transaction'[t].status = transaction[t].status
                 /\ transaction'[t].transaction_index <= multisig'.ms_change_index
                 /\ invoked'[t] = invoked[t]
                 /\ invoked[t] = << >>
      ]_vars

\* a Draft proposal with operations attached that the group has changed under
C3_Witness ==
    \E t \in TxIds :
       /\ Deprecated(t)
       /\ transaction[t].status = Draft
       /\ transaction[t].instruction_index >= 1

\* C4: a proposal that is Active when a membership change brings
\* ms_change_index up to its transaction_index stays Active and deprecated
\* from then on, its votes frozen, so it never reaches Executed; every
\* approve_transaction or reject_transaction on it fails, with
\* DeprecatedTransaction whenever the caller is a current member.
C4_ActiveThenChanged ==
    [][ \A t \in TxIds :
           (transaction[t].status = Active /\ Deprecated(t))
              => /\ transaction'[t] = transaction[t]
                 /\ transaction'[t].transaction_index <= multisig'.ms_change_index
                 /\ \A m \in Signers :
                       /\ VoteTransactionErr(multisig, transaction[t], m) # OK
                       /\ m \in Members =>
                            VoteTransactionErr(multisig, transaction[t], m)
                               = "DeprecatedTransaction"
      ]_vars

\* voting had begun on an Active proposal when the membership changed
C4_Witness ==
    \E t \in TxIds :
       /\ transaction[t].status = Active
       /\ Deprecated(t)
       /\ Approved(t) # {}
       /\ Approved(t) \subseteq Members

\* C5: for every proposal the approved and rejected sets are disjoint; a
\* successful approve_transaction by m leaves m in approved and not in
\* rejected, and a successful reject_transaction by m leaves m in rejected
\* and not in approved.
C5_VotesExclusive ==
    \A t \in TxIds :
       /\ Approved(t) \cap RejectedBy(t) = {}
       /\ \A m \in Signers :
             VoteTransactionErr(multisig, transaction[t], m) = OK
                => LET a == approve_transaction(multisig, transaction[t], m)
                       r == reject_transaction(multisig, transaction[t], m)
                   IN  /\ m \in Range(a.approved)
                       /\ m \notin Range(a.rejected)
                       /\ m \in Range(r.rejected)
                       /\ m \notin Range(r.approved)

\* a member with a standing reject vote is able to vote again
C5_Witness ==
    \E t \in TxIds : \E m \in RejectedBy(t) :
       VoteTransactionErr(multisig, transaction[t], m) = OK

(***************************************************************************)
(* The quorum scenarios: a group of three members with threshold 2 and a   *)
(* group of seven members with threshold 3, one proposal, and the votes on *)
(* it.                                                                     *)
(***************************************************************************)
ScenarioMembers == 7
ScenarioThreshold == 3
VoteAuthority == ScenarioMembers + 1
VoteSigners == 1..(ScenarioMembers + 1)

InitVote ==
    /\ \/ multisig = create(VoteAuthority, 2, <<3, 1, 2, 1>>).ms
       \/ multisig = create(VoteAuthority, ScenarioThreshold,
                            [i \in 1..ScenarioMembers |-> i]).ms
    /\ transaction = << >>
    /\ instruction = << >>
    /\ invoked = << >>

NextVote ==
    \/ \E s \in VoteSigners, a \in AuthorityIndexes :
          transaction = << >> /\ CreateTransaction(s, a)
    \/ \E s \in VoteSigners, t \in TxIds : ActivateTransaction(s, t)
    \/ \E s \in VoteSigners, t \in TxIds : ApproveTransaction(s, t)
    \/ \E s \in VoteSigners, t \in TxIds : RejectTransaction(s, t)

SpecVote == InitVote /\ [][NextVote]_vars

\* C6: a successful approve_transaction on an Active proposal leaves it
\* ExecuteReady if and only if, the vote recorded, |approved| >= the group's
\* threshold, and Active otherwise; with members {1,2,3} and threshold 2
\* the first approval leaves it Active and a second member's approval
\* makes it ExecuteReady.
C6_ApproveQuorum ==
    \A t \in TxIds : \A m \in VoteSigners :
       VoteTransactionErr(multisig, transaction[t], m) = OK
          => LET a == transaction[t]
                 b == approve_transaction(multisig, a, m)
             IN  /\ b.status = ExecuteReady
                      <=> Cardinality(Range(b.approved)) >= multisig.threshold
                 /\ b.status # ExecuteReady => b.status = Active
                 /\ (multisig.keys = <<1, 2, 3>> /\ multisig.threshold = 2)
                      => /\ a.approved = << >> => b.status = Active
                         /\ (Len(a.approved) = 1 /\ m \notin Range(a.approved))
                               => b.status = ExecuteReady

\* members {1,2,3}, threshold 2: two approvals made the proposal ExecuteReady
C6_Witness ==
    /\ multisig.keys = <<1, 2, 3>>
    /\ multisig.threshold = 2
    /\ \E t \in TxIds :
          /\ transaction[t].status = ExecuteReady
          /\ Cardinality(Approved(t)) = 2

\* C7: a successful reject_transaction on an Active proposal leaves it
\* Rejected if and only if, the vote recorded, |rejected| > |members| -
\* threshold, and Active otherwise; with 7 members and threshold 3 up to
\* four distinct rejections leave it Active and the fifth makes it Rejected.
C7_RejectCutoff ==
    \A t \in TxIds : \A m \in VoteSigners :
       VoteTransactionErr(multisig, transaction[t], m) = OK
          => LET a == transaction[t]
                 b == reject_transaction(multisig, a, m)
                 n == Cardinality(Range(b.rejected))
             IN  /\ b.status = Rejected
                      <=> n > Cardinality(Members) - multisig.threshold
                 /\ b.status # Rejected => b.status = Active
                 /\ ( /\ Cardinality(Members) = ScenarioMembers
                      /\ multisig.threshold = ScenarioThreshold )
                      => /\ n <= 4 => b.status = Active
                         /\ n = 5 => b.status = Rejected

\* 7 members, threshold 3: the fifth rejection made the proposal Rejected
C7_Witness ==
    /\ Cardinality(Members) = ScenarioMembers
    /\ multisig.threshold = ScenarioThreshold
    /\ \E t \in TxIds :
          /\ transaction[t].status = Rejected
          /\ Cardinality(RejectedBy(t)) = 5

\* C8: cancel_transaction succeeds only on an ExecuteReady proposal (a
\* member's call on any other fails with InvalidTransactionState and a
\* failed call changes nothing); it adds the caller to the cancelled set at
\* most once, leaves approved and rejected as they were, and sets status
\* Cancelled exactly when |cancelled| >= the group's current threshold.
C8_Cancel ==
    [][ \A t \in TxIds :
           LET a == transaction[t]
               b == transaction'[t]
           IN  /\ \A m \in Signers :
                     LET e == CancelTransactionErr(multisig, a, m)
                         c == cancel_transaction(multisig, a, m)
                     IN  /\ e = OK => a.status = ExecuteReady
                         /\ (m \in Members /\ a.status # ExecuteReady)
                               => e = "InvalidTransactionState"
                         /\ e = OK =>
                               /\ Range(c.cancelled) = Range(a.cancelled) \cup {m}
                               /\ Cardinality(Range(c.cancelled)) = Len(c.cancelled)
                               /\ m \in Range(a.cancelled) => c.cancelled = a.cancelled
                               /\ c.approved = a.approved
                               /\ c.rejected = a.rejected
                               /\ c.status = Cancelled
                                    <=> Cardinality(Range(c.cancelled)) >= multisig.threshold
                               /\ c.status # Cancelled => c.status = ExecuteReady
               /\ (b.cancelled # a.cancelled \/ (b.status = Cancelled /\ a.status # Cancelled))
                     => /\ a.status = ExecuteReady
                        /\ \E m \in Members : b = cancel_transaction(multisig, a, m)
      ]_vars

\* every key of the universe has cancelled, and the proposal is Cancelled
C8_Witness ==
    \E t \in TxIds :
       /\ transaction[t].status = Cancelled
       /\ CancelledBy(t) = Keys
       /\ multisig.threshold = NumKeys

IsStep(call) == call.mode = "step"
IsAtomic(call) == call.mode = "atomic"

\* C9: execute_instruction is accepted only for the operation record whose
\* index is executed_index + 1 and that is not flagged executed; a success
\* raises executed_index by exactly 1, flags that operation executed and
\* performs its one invocation; so the sequential invocations of a proposal
\* are those of operations 1, 2, ..., executed_index in that order, and
\* the step makes the proposal Executed exactly when executed_index reaches
\* instruction_index.
C9_SequentialOrder ==
    [][ \A t \in TxIds :
           LET a == transaction[t]
               b == transaction'[t]
               steps == SelectSeq(invoked'[t], IsStep)
           IN  /\ \A m \in Signers, t2 \in TxIds :
                     \A k \in DOMAIN instruction[t2] :
                        ExecuteInstructionErr(multisig, a, <<t2, k>>, instruction[t2][k], m) = OK
                           => /\ <<t2, k>> = <<t, a.executed_index + 1>>
                              /\ ~instruction[t2][k].executed
               /\ b.executed_index # a.executed_index
                     => /\ b.executed_index = a.executed_index + 1
                        /\ a.status = ExecuteReady
                        /\ ~instruction[t][b.executed_index].executed
                        /\ instruction'[t][b.executed_index].executed
                        /\ invoked'[t] = Append(invoked[t],
                              Invocation(t, a, instruction[t][b.executed_index], "step"))
                        /\ b.status = Executed <=> b.executed_index = b.instruction_index
                        /\ b.status # Executed => b.status = ExecuteReady
               /\ \A k \in DOMAIN instruction[t] :
                     instruction'[t][k].executed # instruction[t][k].executed
                        => /\ k = b.executed_index
                           /\ b.executed_index = a.executed_index + 1
               /\ Len(steps) = b.executed_index
               /\ \A i \in 1..Len(steps) : steps[i].ix = i
      ]_vars

\* every operation of a proposal with MaxIx operations was executed step by step
C9_Witness ==
    \E t \in TxIds :
       /\ transaction[t].status = Executed
       /\ transaction[t].instruction_index = MaxIx
       /\ transaction[t].executed_index = MaxIx
       /\ Len(SelectSeq(invoked[t], IsStep)) = MaxIx

\* C10: once a step has succeeded (executed_index >= 1) every
\* execute_transaction call on the proposal fails, with PartialExecution
\* whenever the caller may execute and the proposal is ExecuteReady; no
\* operation of a proposal is invoked both by a step and by an atomic batch.
C10_ModesExclusive ==
    \A t \in TxIds :
       /\ transaction[t].executed_index >= 1
             => \A m \in Signers :
                   LET e == ExecuteTransactionErr(multisig, transaction[t], m)
                   IN  /\ e # OK
                       /\ ( /\ (m \in Members \/ multisig.allow_external_execute)
                            /\ transaction[t].status = ExecuteReady )
                             => e = "PartialExecution"
       /\ \A i, j \in DOMAIN invoked[t] :
             (IsStep(invoked[t][i]) /\ IsAtomic(invoked[t][j]))
                => invoked[t][i].ix # invoked[t][j].ix

\* the first of two operations was executed as a step; the proposal is
\* still ExecuteReady
C10_Witness ==
    \E t \in TxIds :
       /\ transaction[t].status = ExecuteReady
       /\ transaction[t].executed_index = 1
       /\ transaction[t].instruction_index = 2
       /\ invoked[t] # << >>

\* the callers whose execute_transaction call passes the account constraints
MayExecute(t) ==
    { m \in Signers : ExecuteTransactionErr(multisig, transaction[t], m) = OK }

\* C11: execute_transaction on an ExecuteReady proposal with
\* executed_index = 0 and N >= 1 operations succeeds exactly when every
\* verification and every invocation of operations 1..N succeeds; it then
\* invokes operations 1..N in increasing index order in the one call and
\* makes the proposal Executed; if the verification or the invocation of
\* some operation k fails the call fails, nothing is committed (no
\* invocation, status ExecuteReady, executed_index 0); atomic invocations
\* only ever appear as the whole batch 1..N of a proposal that became
\* Executed by that call.
C11_AtomicAllOrNothing ==
    /\ [] \A t \in TxIds :
            LET a == transaction[t]
                N == a.instruction_index
                honest == BatchAccounts(t, instruction[t], 1)
            IN  (MayExecute(t) # {} /\ N >= 1)
                   => /\ a.status = ExecuteReady /\ a.executed_index = 0
                      /\ \A accounts \in Supplied(honest), fail_at \in 0..MaxIx :
                            LET r == execute_transaction(t, a, instruction[t], accounts, fail_at)
                            IN  /\ r.err = OK <=> (accounts = honest /\ fail_at \notin 1..N)
                                /\ r.err # OK
                                      => /\ r.calls = << >>
                                         /\ r.tx = a
                                         /\ r.tx.status = ExecuteReady
                                         /\ r.tx.executed_index = 0
                                /\ r.err = OK
                                      => /\ r.tx.status = Executed
                                         /\ Len(r.calls) = N
                                         /\ \A i \in 1..N :
                                               r.calls[i] = Invocation(t, a, instruction[t][i], "atomic")
    /\ [][ \A t \in TxIds :
             LET a == transaction[t]
                 b == transaction'[t]
                 N == a.instruction_index
                 new == SubSeq(invoked'[t], Len(invoked[t]) + 1, Len(invoked'[t]))
             IN  /\ (\E i \in DOMAIN new : IsAtomic(new[i]))
                       => /\ a.status = ExecuteReady /\ a.executed_index = 0
                          /\ b.status = Executed
                          /\ N >= 1 /\ Len(new) = N
                          /\ \A i \in 1..N : IsAtomic(new[i]) /\ new[i].ix = i
                          /\ instruction'[t] = instruction[t]
                 /\ (a.status = ExecuteReady /\ b.status = Executed /\ b.executed_index = 0 /\ N >= 1)
                       => /\ Len(new) = N
                          /\ \A i \in 1..N : new[i] = Invocation(t, a, instruction[t][i], "atomic")
        ]_vars

\* a proposal with MaxIx operations was executed atomically: its
\* invocations are those of operations 1..MaxIx, in that order
C11_Witness ==
    \E t \in TxIds :
       /\ transaction[t].status = Executed
       /\ transaction[t].instruction_index = MaxIx
       /\ transaction[t].executed_index = 0
       /\ Len(invoked[t]) = MaxIx
       /\ \A i \in 1..MaxIx : IsAtomic(invoked[t][i]) /\ invoked[t][i].ix = i

\* C12: execute_transaction on an ExecuteReady proposal without operations
\* (instruction_index = 0) succeeds whatever accounts are supplied,
\* performs no delegated invocation and makes the proposal Executed.
C12_ZeroOperations ==
    [][ \A t \in TxIds :
           LET a == transaction[t]
               b == transaction'[t]
           IN  a.instruction_index = 0
                  => /\ MayExecute(t) # {}
                        => \A accounts \in Supplied(<<Pubkey(1)>>), fail_at \in 0..MaxIx :
                              LET r == execute_transaction(t, a, instruction[t], accounts, fail_at)
                              IN  /\ r.err = OK
                                  /\ r.calls = << >>
                                  /\ r.tx.status = Executed
                     /\ (a.status = ExecuteReady /\ b.status # ExecuteReady /\ b.status # Cancelled)
                           => /\ b.status = Executed
                              /\ MayExecute(t) # {}
                     /\ invoked'[t] = << >>
      ]_vars

\* a proposal without operations is Executed and nothing was invoked for it
C12_Witness ==
    \E t \in TxIds :
       /\ transaction[t].status = Executed
       /\ transaction[t].instruction_index = 0
       /\ instruction[t] = << >>
       /\ invoked[t] = << >>


\* C13: an execute_instruction call fails when the caller is not allowed,
\* when the operation record supplied is not the next step of the
\* proposal, when the accounts supplied do not match the saved operation,
\* and when the delegated invocation fails; a failed call leaves the
\* proposal (executed_index, status) and the operation record (executed
\* flag) as they were and invokes nothing, so the same step is accepted
\* when resubmitted; executed_index and the executed flags change only by
\* a step that fully succeeded.
C13_FailedStepChangesNothing ==
    /\ [] \A t \in TxIds, t2 \in TxIds :
            \A k \in DOMAIN instruction[t2] :
               LET a == transaction[t]
                   ms_ix == instruction[t2][k]
                   ce(m) == ExecuteInstructionErr(multisig, a, <<t2, k>>, ms_ix, m)
                   honest == StepAccounts(ms_ix)
               IN  /\ \A m \in Signers :
                         /\ (m \notin Members /\ ~multisig.allow_external_execute)
                               => ce(m) # OK
                         /\ <<t2, k>> # <<t, a.executed_index + 1>> => ce(m) # OK
                   /\ \A accounts \in Supplied(honest), invoke_ok \in BOOLEAN :
                         LET r == execute_instruction(t, a, ms_ix, accounts, invoke_ok)
                         IN  /\ (accounts # honest \/ ~invoke_ok) => r.err # OK
                             /\ r.err # OK
                                   => /\ r.tx = a
                                      /\ r.ix = ms_ix
                                      /\ r.calls = << >>
                             /\ ((\E m \in Signers : ce(m) = OK) /\ accounts = honest /\ invoke_ok)
                                   => r.err = OK
    /\ [][ \A t \in TxIds :
             LET a == transaction[t]
                 b == transaction'[t]
             IN  ( \/ b.executed_index # a.executed_index
                   \/ \E k \in DOMAIN instruction[t] :
                         instruction'[t][k].executed # instruction[t][k].executed )
                    => LET k == a.executed_index + 1
                       IN  /\ k \in DOMAIN instruction[t]
                           /\ \E m \in Signers :
                                 ExecuteInstructionErr(multisig, a, <<t, k>>, instruction[t][k], m) = OK
                           /\ LET r == execute_instruction(t, a, instruction[t][k],
                                                           StepAccounts(instruction[t][k]), TRUE)
                              IN  /\ r.err = OK
                                  /\ b = r.tx
                                  /\ instruction'[t] = [instruction[t] EXCEPT ![k] = r.ix]
                                  /\ invoked'[t] = invoked[t] \o r.calls
        ]_vars

\* the second of two steps is pending in a group that has a non-member
\* signer and does not let outsiders execute: each kind of failing call,
\* and the resubmission, can be made here
C13_Witness ==
    \E t \in TxIds :
       /\ transaction[t].status = ExecuteReady
       /\ transaction[t].executed_index = 1
       /\ Len(instruction[t]) = 2
       /\ instruction[t][1].executed
       /\ ~instruction[t][2].executed
       /\ ~multisig.allow_external_execute
       /\ Keys \ Members # {}


\* C14 as stated: in every reachable state a proposal whose status is
\* Executed, Cancelled or Rejected has executed_index equal to 0 or to
\* instruction_index.
C14_Original ==
    \A t \in TxIds :
       transaction[t].status \in {Executed, Cancelled, Rejected}
          => transaction[t].executed_index \in {0, transaction[t].instruction_index}

\* C14 as amended: an Executed proposal has executed_index equal to 0 or
\* to instruction_index and a Rejected one has executed_index 0; a
\* Cancelled proposal has executed_index 0 or below instruction_index,
\* every value 0..instruction_index - 1 being possible, because
\* cancel_transaction accepts any ExecuteReady proposal whatever its
\* executed_index; the operations after executed_index of a Cancelled
\* proposal are not flagged executed and are never invoked.
C14_NoPartialExceptCancelled ==
    /\ [] \A t \in TxIds :
            LET a == transaction[t]
            IN  /\ a.executed_index \in 0..a.instruction_index
                /\ a.status = Executed => a.executed_index \in {0, a.instruction_index}
                /\ a.status = Rejected => a.executed_index = 0
                /\ a.status = Cancelled
                      => /\ (a.executed_index = 0 \/ a.executed_index < a.instruction_index)
                         /\ \A k \in DOMAIN instruction[t] :
                               instruction[t][k].executed <=> k <= a.executed_index
                         /\ Len(invoked[t]) = a.executed_index
                /\ \A m \in Members :
                      (a.status = ExecuteReady /\ a.executed_index >= 1)
                         => CancelTransactionErr(multisig, a, m) = OK
    /\ [][ \A t \in TxIds :
             transaction[t].status = Cancelled
                => /\ transaction'[t] = transaction[t]
                   /\ instruction'[t] = instruction[t]
                   /\ invoked'[t] = invoked[t]
        ]_vars

\* a proposal was cancelled after the first of its two operations had
\* been executed as a step
C14_Witness ==
    \E t \in TxIds :
       /\ transaction[t].status = Cancelled
       /\ transaction[t].executed_index = 1
       /\ transaction[t].instruction_index = 2
       /\ instruction[t][1].executed
       /\ ~instruction[t][2].executed
       /\ Len(invoked[t]) = 1


\* C15: on a group with exactly one member remove_member fails with
\* CannotRemoveSoloMember whatever key is named (for the caller that
\* passes the authority check) and members, threshold and ms_change_index
\* stay as they are; on a larger group remove_member succeeds, and the
\* threshold becomes the new member count when that count is below the
\* previous threshold and is unchanged otherwise; the last member of a
\* group is never removed.
C15_RemoveMember ==
    /\ [] \A old_member \in AdminKeys :
            LET r == remove_member(multisig, old_member)
            IN  /\ Len(multisig.keys) = 1
                      => /\ r.err = "CannotRemoveSoloMember"
                         /\ r.ms = multisig
                         /\ \A n \in AdminThresholds :
                               LET c == remove_member_and_change_threshold(multisig, old_member, n)
                               IN  c.err = "CannotRemoveSoloMember" /\ c.ms = multisig
                /\ Len(multisig.keys) > 1
                      => /\ r.err = OK
                         /\ Range(r.ms.keys) = Members \ {old_member}
                         /\ Len(r.ms.keys) < multisig.threshold
                               => r.ms.threshold = Len(r.ms.keys)
                         /\ Len(r.ms.keys) >= multisig.threshold
                               => r.ms.threshold = multisig.threshold
    /\ [][ /\ Len(multisig.keys) = 1 => Members \subseteq Range(multisig'.keys)
            /\ Len(multisig'.keys) >= 1
        ]_vars

\* one member is left, the creator of a proposal having been removed
C15_Witness ==
    /\ Len(multisig.keys) = 1
    /\ multisig.threshold = 1
    /\ multisig.ms_change_index >= 1
    /\ \E t \in TxIds : transaction[t].creator \notin Members


Terminal == {Executed, Cancelled, Rejected}

\* C16: the status of a proposal changes only along Draft -> Active (by
\* activate_transaction), Active -> ExecuteReady (by approve_transaction),
\* Active -> Rejected (by reject_transaction), ExecuteReady -> Executed (by
\* execute_transaction or execute_instruction) and ExecuteReady ->
\* Cancelled (by cancel_transaction); a proposal that is Executed,
\* Cancelled or Rejected is refused by every operation and its status,
\* vote sets, instruction_index and executed_index never change again.
C16_StatusEdges ==
    /\ [] \A t \in TxIds, m \in Signers :
            LET a == transaction[t]
            IN  a.status \in Terminal
                   => /\ AddInstructionErr(multisig, a, m) # OK
                      /\ ActivateTransactionErr(multisig, a, m) # OK
                      /\ VoteTransactionErr(multisig, a, m) # OK
                      /\ CancelTransactionErr(multisig, a, m) # OK
                      /\ ExecuteTransactionErr(multisig, a, m) # OK
                      /\ \A k \in DOMAIN instruction[t] :
                            ExecuteInstructionErr(multisig, a, <<t, k>>, instruction[t][k], m) # OK
    /\ [][ \A t \in TxIds :
             LET a == transaction[t]
                 b == transaction'[t]
             IN  /\ a.status # b.status
                       => \/ /\ a.status = Draft /\ b.status = Active
                             /\ b = activate_transaction(a)
                          \/ /\ a.status = Active /\ b.status = ExecuteReady
                             /\ \E m \in Members : b = approve_transaction(multisig, a, m)
                          \/ /\ a.status = Active /\ b.status = Rejected
                             /\ \E m \in Members : b = reject_transaction(multisig, a, m)
                          \/ /\ a.status = ExecuteReady /\ b.status = Executed
                             /\ b = MsTransaction_set_executed(
                                        [a EXCEPT !.executed_index =
                                            IF a.executed_index = 0 /\ invoked'[t] = invoked[t] \o
                                                  [i \in 1..a.instruction_index |->
                                                     Invocation(t, a, instruction[t][i], "atomic")]
                                            THEN 0 ELSE a.instruction_index])
                          \/ /\ a.status = ExecuteReady /\ b.status = Cancelled
                             /\ \E m \in Members : b = cancel_transaction(multisig, a, m)
                 /\ a.status \in Terminal
                       => /\ b.status = a.status
                          /\ b.approved = a.approved
                          /\ b.rejected = a.rejected
                          /\ b.cancelled = a.cancelled
                          /\ b.instruction_index = a.instruction_index
                          /\ b.executed_index = a.executed_index
        ]_vars

\* each terminal status has been reached: a proposal with operations was
\* rejected by a vote
C16_Witness ==
    \E t \in TxIds :
       /\ transaction[t].status = Rejected
       /\ transaction[t].rejected # << >>
       /\ transaction[t].instruction_index >= 1


\* C17: activate_transaction is accepted exactly when the caller is the
\* proposal's creator and a current member, the proposal is in Draft and
\* transaction_index > ms_change_index; for that caller a Draft proposal
\* with transaction_index <= ms_change_index is refused with
\* DeprecatedTransaction; a proposal leaves Draft only by an accepted
\* activation, which makes it Active, so a refused activation leaves it
\* in Draft.
C17_Activate ==
    /\ [] \A t \in TxIds, m \in Signers :
            LET a == transaction[t]
                e == ActivateTransactionErr(multisig, a, m)
            IN  /\ e = OK <=> /\ m = a.creator
                              /\ m \in Members
                              /\ a.status = Draft
                              /\ a.transaction_index > multisig.ms_change_index
                /\ (m = a.creator /\ m \in Members /\ a.status = Draft /\ Deprecated(t))
                      => e = "DeprecatedTransaction"
                /\ e = OK => activate_transaction(a) = [a EXCEPT !.status = Active]
    /\ [][ \A t \in TxIds :
             LET a == transaction[t]
                 b == transaction'[t]
             IN  /\ (a.status = Draft /\ b.status # Draft)
                       => /\ b = [a EXCEPT !.status = Active]
                          /\ ActivateTransactionErr(multisig, a, a.creator) = OK
                          /\ a.creator \in Members
                          /\ ~Deprecated(t)
                          /\ multisig' = multisig
                 /\ (a.status = Draft /\ Deprecated(t)) => b.status = Draft
        ]_vars

\* the creator, still a member, holds a Draft proposal that the group has
\* changed under
C17_Witness ==
    \E t \in TxIds :
       /\ transaction[t].status = Draft
       /\ Deprecated(t)
       /\ transaction[t].creator \in Members
       /\ Keys \ Members # {}


\* an operation record without its executed flag
Frozen(ms_ix) == [ms_ix EXCEPT !.executed = FALSE]

\* C18: add_instruction is accepted only while the proposal is in Draft;
\* outside Draft it is refused, with InvalidTransactionState for the
\* creator when a current member, and nothing changes; the operation
\* records of a proposal are numbered 1..instruction_index, a record once
\* added never changes but for its executed flag, and once the proposal
\* has left Draft their number, content, authority binding and order stay
\* the same.
C18_OperationsFrozen ==
    /\ [] \A t \in TxIds :
            LET a == transaction[t]
            IN  /\ Len(instruction[t]) = a.instruction_index
                /\ \A k \in DOMAIN instruction[t] : instruction[t][k].instruction_index = k
                /\ \A m \in Signers :
                      LET e == AddInstructionErr(multisig, a, m)
                      IN  /\ e = OK => a.status = Draft
                          /\ (a.status # Draft /\ m = a.creator /\ m \in Members)
                                => e = "InvalidTransactionState"
    /\ [][ \A t \in TxIds :
             LET a == transaction[t]
                 b == transaction'[t]
             IN  /\ \A k \in DOMAIN instruction[t] :
                       /\ k \in DOMAIN instruction'[t]
                       /\ Frozen(instruction'[t][k]) = Frozen(instruction[t][k])
                 /\ a.status # Draft
                       => /\ b.instruction_index = a.instruction_index
                          /\ DOMAIN instruction'[t] = DOMAIN instruction[t]
                 /\ b.instruction_index # a.instruction_index
                       => /\ a.status = Draft /\ b.status = Draft
                          /\ b.instruction_index = a.instruction_index + 1
                          /\ AddInstructionErr(multisig, a, a.creator) = OK
        ]_vars

\* an Active proposal of a current member with room for one more
\* operation: its creator's add_instruction is refused
C18_Witness ==
    \E t \in TxIds :
       /\ transaction[t].status = Active
       /\ transaction[t].instruction_index = 1
       /\ transaction[t].creator \in Members
       /\ instruction[t][1].authority_type = Custom


\* C19: approve_transaction, reject_transaction and cancel_transaction by
\* a principal that is not in the group's current member set, a member
\* removed earlier included, are refused with KeyNotInMultisig; a vote set
\* of a proposal changes only by the call of a current member, which
\* records or withdraws the vote of that member only.
C19_VotesByCurrentMembers ==
    /\ [] \A t \in TxIds, m \in Signers \ Members :
            /\ VoteTransactionErr(multisig, transaction[t], m) = "KeyNotInMultisig"
            /\ CancelTransactionErr(multisig, transaction[t], m) = "KeyNotInMultisig"
    /\ [][ \A t \in TxIds :
             LET a == transaction[t]
                 b == transaction'[t]
             IN  <<b.approved, b.rejected, b.cancelled>> # <<a.approved, a.rejected, a.cancelled>>
                    => \E m \in Members :
                          /\ multisig' = multisig
                          /\ \/ /\ VoteTransactionErr(multisig, a, m) = OK
                                /\ b \in { approve_transaction(multisig, a, m),
                                            reject_transaction(multisig, a, m) }
                             \/ /\ CancelTransactionErr(multisig, a, m) = OK
                                /\ b = cancel_transaction(multisig, a, m)
                          /\ Range(b.approved) \ Range(a.approved) \subseteq {m}
                          /\ Range(b.rejected) \ Range(a.rejected) \subseteq {m}
                          /\ Range(b.cancelled) \ Range(a.cancelled) \subseteq {m}
                          /\ Range(a.approved) \ Range(b.approved) \subseteq {m}
                          /\ Range(a.rejected) \ Range(b.rejected) \subseteq {m}
                          /\ Range(a.cancelled) = Range(b.cancelled) \ {m}
        ]_vars

\* a principal whose approval stands on an ExecuteReady proposal has been
\* removed from the group: its cancel vote is refused
C19_Witness ==
    \E t \in TxIds :
       /\ transaction[t].status = ExecuteReady
       /\ Approved(t) \ Members # {}
       /\ transaction[t].cancelled = << >>


(***************************************************************************)
(* Several proposals of one group, without operations: creation, the       *)
(* group changes that stamp ms_change_index, and activation.               *)
(***************************************************************************)
MaxNumbered == 3

CreateNumbered(creator, authority_index) ==
    /\ multisig.transaction_index < MaxNumbered
    /\ CreateTransactionErr(multisig, creator) = OK
    /\ LET r == create_transaction(multisig, creator, authority_index)
       IN  /\ multisig' = r.ms
           /\ transaction' = Append(transaction, r.tx)
           /\ instruction' = Append(instruction, << >>)
           /\ invoked' = Append(invoked, << >>)

NextNumbered ==
    \/ \E s \in Signers, a \in AuthorityIndexes : CreateNumbered(s, a)
    \/ \E s \in Signers, k \in Keys, b \in BOOLEAN : AddMember(s, k, b)
    \/ \E s \in Signers, k \in Keys : RemoveMember(s, k)
    \/ \E s \in Signers, n \in Thresholds : ChangeThreshold(s, n)
    \/ \E s \in Signers, t \in TxIds : ActivateTransaction(s, t)

SpecNumbered == Init /\ [][NextNumbered]_vars

\* C20: the group starts with transaction_index = 0; a successful
\* create_transaction raises it by exactly 1 and gives the new proposal,
\* in Draft, the new value; no other operation changes it, nor the
\* transaction_index of a proposal; so the k-th proposal created has
\* transaction_index = k and no two proposals share one.
C20_SequentialNumbers ==
    /\ [] /\ multisig.transaction_index = Len(transaction)
          /\ \A t \in TxIds : transaction[t].transaction_index = t
          /\ \A t, u \in TxIds :
                transaction[t].transaction_index = transaction[u].transaction_index
                   => t = u
    /\ [][  /\ \A t \in TxIds :
                transaction'[t].transaction_index = transaction[t].transaction_index
            /\ multisig'.transaction_index # multisig.transaction_index
                  => /\ multisig'.transaction_index = multisig.transaction_index + 1
                     /\ \E s \in Members, a \in AuthorityIndexes :
                           /\ multisig' = create_transaction(multisig, s, a).ms
                           /\ transaction' = Append(transaction,
                                                    create_transaction(multisig, s, a).tx)
                     /\ transaction'[Len(transaction')].status = Draft
                     /\ transaction'[Len(transaction')].transaction_index
                           = multisig'.transaction_index
            /\ Len(transaction') # Len(transaction)
                  => multisig'.transaction_index # multisig.transaction_index
        ]_vars

\* MaxNumbered proposals were created, a group change between the second
\* and the third
C20_Witness ==
    /\ Len(transaction) = MaxNumbered
    /\ multisig.transaction_index = MaxNumbered
    /\ multisig.ms_change_index = MaxNumbered - 1
    /\ transaction[MaxNumbered].status = Active


(***************************************************************************)
(* Several proposals of one group under every group change, the combined   *)
(* ones included.                                                          *)
(***************************************************************************)
NextChange ==
    \/ NextNumbered
    \/ \E s \in Signers, k \in Keys, n \in Thresholds :
          RemoveMemberAndChangeThreshold(s, k, n)
    \/ \E s \in Signers, k \in Keys, n \in Thresholds, b \in BOOLEAN :
          AddMemberAndChangeThreshold(s, k, n, b)

SpecChange == Init /\ [][NextChange]_vars

\* C21: a successful add_member, remove_member,
\* add_member_and_change_threshold or remove_member_and_change_threshold
\* ends with ms_change_index equal to the group's transaction_index, so
\* every proposal existing then has transaction_index <= ms_change_index
\* and a proposal created next has transaction_index > ms_change_index;
\* whenever the member set changes, that holds of the new state.
C21_ChangeIndexStamped ==
    /\ [] /\ multisig.ms_change_index <= multisig.transaction_index
          /\ \A k \in Keys, n \in Thresholds :
                \A r \in { add_member(multisig, k, TRUE),
                            remove_member(multisig, k),
                            add_member_and_change_threshold(multisig, k, n, TRUE),
                            remove_member_and_change_threshold(multisig, k, n) } :
                   r.err = OK
                      => /\ r.ms.transaction_index = multisig.transaction_index
                         /\ r.ms.ms_change_index = r.ms.transaction_index
                         /\ \A t \in TxIds :
                               transaction[t].transaction_index <= r.ms.ms_change_index
                         /\ \A s \in Range(r.ms.keys), a \in AuthorityIndexes :
                               create_transaction(r.ms, s, a).tx.transaction_index
                                  > create_transaction(r.ms, s, a).ms.ms_change_index
    /\ [][  /\ Range(multisig'.keys) # Members
                  => /\ multisig'.ms_change_index = multisig'.transaction_index
                     /\ transaction' = transaction
                     /\ \A t \in TxIds :
                           transaction[t].transaction_index <= multisig'.ms_change_index
            /\ Len(transaction') > Len(transaction)
                  => /\ transaction'[Len(transaction')].transaction_index
                           > multisig'.ms_change_index
                     /\ multisig'.ms_change_index = multisig.ms_change_index
        ]_vars

\* the member set changed after the first proposal was created and before
\* the second was
C21_Witness ==
    /\ Len(transaction) = 2
    /\ multisig.ms_change_index = 1
    /\ transaction[1].creator \notin Members
    /\ transaction[2].status = Active


Min(a, b) == IF a < b THEN a ELSE b

\* C22: change_threshold(0) fails with InvalidThreshold and leaves the
\* group as it was; change_threshold(n), n >= 1, succeeds, sets threshold
\* to min(n, |members|) and leaves the members alone; the combined
\* variants make the membership change and set threshold to min(n, member
\* count after the change), and with n = 0 they fail with InvalidThreshold
\* and the membership change is not applied.
C22_ChangeThreshold ==
    /\ [] \A n \in AdminThresholds, k \in AdminKeys :
            LET c == change_threshold(multisig, n)
                a == add_member_and_change_threshold(multisig, k, n, TRUE)
                r == remove_member_and_change_threshold(multisig, k, n)
            IN  /\ n = 0 => /\ c.err = "InvalidThreshold" /\ c.ms = multisig
                            /\ a.err = "InvalidThreshold" /\ a.ms = multisig
                            /\ Len(multisig.keys) > 1
                                  => (r.err = "InvalidThreshold" /\ r.ms = multisig)
                /\ n >= 1 => /\ c.err = OK
                             /\ c.ms.keys = multisig.keys
                             /\ c.ms.threshold = Min(n, Len(multisig.keys))
                             /\ a.err = OK
                             /\ Range(a.ms.keys) = Members \cup {k}
                             /\ a.ms.threshold = Min(n, Cardinality(Members \cup {k}))
                             /\ Len(multisig.keys) > 1
                                   => /\ r.err = OK
                                      /\ Range(r.ms.keys) = Members \ {k}
                                      /\ r.ms.threshold = Min(n, Cardinality(Members \ {k}))
    /\ [][ multisig'.threshold # multisig.threshold
              => /\ 1 <= multisig'.threshold
                 /\ multisig'.threshold <= Len(multisig'.keys)
                 /\ multisig'.ms_change_index = multisig'.transaction_index
        ]_vars

\* the threshold of the full group was set below its member count after a
\* proposal had been created
C22_Witness ==
    /\ Members = AdminKeys
    /\ multisig.threshold = NumKeys
    /\ multisig.ms_change_index = 1
    /\ \E t \in TxIds : transaction[t].status = Draft


(***************************************************************************)
(* One proposal of a fixed group, its operations added with every shape of *)
(* authority argument, then voted and executed in either mode.             *)
(***************************************************************************)
IxAuthorityArgsAll ==
    IxAuthorityArgs \cup
       { <<Some(2), Some(AuthorityBump(2)), Default>>,
         <<Some(1), Some(AuthorityBump(2)), Default>> }

NextAuthority ==
    \/ \E s \in Signers, a \in AuthorityIndexes :
          transaction = << >> /\ CreateTransaction(s, a)
    \/ \E s \in Signers, t \in TxIds, inc \in Incoming, auth \in IxAuthorityArgsAll :
          AddInstruction(s, t, inc, auth)
    \/ \E s \in Signers, t \in TxIds : ActivateTransaction(s, t)
    \/ \E s \in Signers, t \in TxIds : ApproveTransaction(s, t)
    \/ \E s \in Signers, t \in TxIds : ExecuteTransaction(s, t)
    \/ \E s \in Signers, t \in TxIds, t2 \in TxIds, k \in 1..MaxIx :
          ExecuteInstruction(s, t, <<t2, k>>)

\* the group of every key, any one of them a quorum
InitAuthority ==
    /\ multisig = create(Admin, 1, [i \in 1..NumKeys |-> i]).ms
    /\ transaction = << >>
    /\ instruction = << >>
    /\ invoked = << >>

SpecAuthority == InitAuthority /\ [][NextAuthority]_vars

\* the group-scoped authorities in the signing material of an invocation
GroupAuthorities(call) == { s \in call.signers : s.seed = "authority" }

\* C23: every invocation performed for a proposal, by execute_transaction
\* or execute_instruction, carries exactly one group-scoped authority in
\* its signing material, and that authority has the proposal's
\* authority_index; the invocation of a Custom operation carries the
\* proposal-scoped authority as well.
C23_Original ==
    \A t \in TxIds :
       \A i \in DOMAIN invoked[t] :
          LET call == invoked[t][i]
          IN  /\ Cardinality(GroupAuthorities(call)) = 1
              /\ \A s \in GroupAuthorities(call) :
                    s.index = transaction[t].authority_index
              /\ instruction[t][call.ix].authority_type = Custom
                    => \E s \in call.signers : s.seed = "ix_authority" /\ s.scope = t


\* C24: add_instruction with neither authority index nor bump stores the
\* proposal's authority_index and authority_bump and type Default, also
\* when Custom was requested; with exactly one of the two it fails with
\* InvalidAuthorityIndex, instruction_index and the operation records
\* staying as they were; with both it stores them as given, with the
\* requested type; every record added is the one such a call produces.
C24_AuthorityBinding ==
    /\ [] \A t \in TxIds :
            LET a == transaction[t]
            IN  /\ \A k \in DOMAIN instruction[t] :
                      /\ instruction[t][k].authority_index # None
                      /\ instruction[t][k].authority_bump # None
                      /\ instruction[t][k].authority_type \in AuthorityTypes
                /\ \A inc \in Incoming, auth \in IxAuthorityArgsAll :
                      LET r == add_instruction(a, inc, auth[1], auth[2], auth[3])
                      IN  /\ (auth[1] = None /\ auth[2] = None)
                                => /\ r.err = OK
                                   /\ r.ix.authority_index = Some(a.authority_index)
                                   /\ r.ix.authority_bump = Some(a.authority_bump)
                                   /\ r.ix.authority_type = Default
                          /\ ((auth[1] = None) # (auth[2] = None))
                                => /\ r.err = "InvalidAuthorityIndex"
                                   /\ r.tx = a
                          /\ (auth[1] # None /\ auth[2] # None)
                                => /\ r.err = OK
                                   /\ r.ix.authority_index = auth[1]
                                   /\ r.ix.authority_bump = auth[2]
                                   /\ r.ix.authority_type = auth[3]
                          /\ r.err = OK
                                => /\ r.tx.instruction_index = a.instruction_index + 1
                                   /\ r.ix.instruction_index = r.tx.instruction_index
                                   /\ r.ix.program_id = inc.program_id
                                   /\ r.ix.keys = inc.keys
    /\ [][ \A t \in TxIds :
             instruction'[t] # instruction[t] /\ Len(instruction'[t]) # Len(instruction[t])
                => \E inc \in Incoming, auth \in IxAuthorityArgsAll :
                      LET r == add_instruction(transaction[t], inc, auth[1], auth[2], auth[3])
                      IN  /\ r.err = OK
                          /\ transaction'[t] = r.tx
                          /\ instruction'[t] = Append(instruction[t], r.ix)
        ]_vars

\* a Draft proposal holds an operation that inherited its authority and
\* one that was given another index with type Custom
C24_Witness ==
    \E t \in TxIds :
       /\ transaction[t].status = Draft
       /\ Len(instruction[t]) = 2
       /\ instruction[t][1].authority_type = Default
       /\ instruction[t][1].authority_index = Some(transaction[t].authority_index)
       /\ instruction[t][2].authority_type = Custom
       /\ instruction[t][2].authority_index # Some(transaction[t].authority_index)


\* C25: while allow_external_execute is false, execute_transaction and
\* execute_instruction by a principal that is not a current member are
\* refused with KeyNotInMultisig; while it is true such a caller is
\* treated as a member is; the calls guarded by the authority check,
\* set_external_execute among them, are refused with
\* InvalidExternalAuthority for everyone but the external authority, and
\* the flag changes only by set_external_execute, which changes nothing
\* else.
C25_ExternalExecute ==
    /\ [] /\ \A t \in TxIds, m \in Signers \ Members :
                /\ ~multisig.allow_external_execute
                      => /\ ExecuteTransactionErr(multisig, transaction[t], m)
                               = "KeyNotInMultisig"
                         /\ \A k \in DOMAIN instruction[t] :
                               ExecuteInstructionErr(multisig, transaction[t], <<t, k>>,
                                                     instruction[t][k], m)
                                  = "KeyNotInMultisig"
                /\ multisig.allow_external_execute
                      => \A m2 \in Members :
                            /\ ExecuteTransactionErr(multisig, transaction[t], m)
                                  = ExecuteTransactionErr(multisig, transaction[t], m2)
                            /\ \A k \in DOMAIN instruction[t] :
                                  ExecuteInstructionErr(multisig, transaction[t], <<t, k>>,
                                                        instruction[t][k], m)
                                     = ExecuteInstructionErr(multisig, transaction[t], <<t, k>>,
                                                             instruction[t][k], m2)
          /\ \A s \in Signers :
                MsAuthErr(multisig, s) =
                   IF s = multisig.external_authority THEN OK
                   ELSE "InvalidExternalAuthority"
    /\ [][ multisig'.allow_external_execute # multisig.allow_external_execute
              => /\ multisig' = [multisig EXCEPT !.allow_external_execute = ~@]
                 /\ UNCHANGED <<transaction, instruction, invoked>>
        ]_vars

\* outsiders may execute, and the second step of a proposal is pending
C25_Witness ==
    /\ multisig.allow_external_execute
    /\ \E t \in TxIds :
          /\ transaction[t].status = ExecuteReady
          /\ transaction[t].executed_index = 1
          /\ ~instruction[t][2].executed

(***************************************************************************)
(* Operations that call back into this program.  An approved operation may *)
(* target this program itself, signed by a group authority that is the     *)
(* group's external authority: the delegated invocation then rewrites the  *)
(* account of the group record while execute_transaction or                *)
(* execute_instruction still holds the copy it read when the call started. *)
(***************************************************************************)
MeshProgram == <<"program", 0, 0>>
MsAccount == <<"ms", 0, 0>>

\* the derived address of group authority i, as signing material
AuthorityPda(i) ==
    [ seed |-> "authority", scope |-> 0, index |-> i, bump |-> AuthorityBump(i) ]

\* payloads of the operations on the group record
GroupInstructions ==
    {<<"add_member", k>> : k \in Keys}
      \cup {<<"remove_member", k>> : k \in Keys}
      \cup {<<"change_threshold", n>> : n \in 1..NumKeys}
      \cup {<<"change_external_authority", AuthorityPda(2)>>}

IncomingGroup ==
    Incoming \cup
       { [program_id |-> MeshProgram, keys |-> <<MsAccount>>, data |-> d] :
            d \in GroupInstructions }

\* invoke_signed: what one delegated invocation does to the account of the
\* group record.  Another program leaves it alone; this program runs the
\* handler the payload names, under the MsAuth constraint.
invoke_signed(account, ms_ix, signers) ==
    IF ms_ix.program_id # MeshProgram THEN Res(OK, account)
    ELSE IF account.external_authority \notin signers
    THEN Res("InvalidExternalAuthority", account)
    ELSE LET d == ms_ix.data
         IN  CASE d[1] = "add_member" -> add_member(account, d[2], TRUE)
               [] d[1] = "remove_member" -> remove_member(account, d[2])
               [] d[1] = "change_threshold" -> change_threshold(account, d[2])
               [] d[1] = "change_external_authority" ->
                     Res(OK, [account EXCEPT !.external_authority = d[2]])

\* the invocations of execute_transaction from operation i on
RECURSIVE InvokeBatch(_, _, _, _, _)
InvokeBatch(account, t, tx, ixs, i) ==
    IF i > tx.instruction_index THEN Res(OK, account)
    ELSE LET r == invoke_signed(account, ixs[i], SignerSeeds(t, tx, ixs[i]))
         IN  IF r.err # OK THEN r
             ELSE InvokeBatch(r.ms, t, tx, ixs, i + 1)

\* the engine's copy left stale: what the call would write back without
\* the re-read
reload_Skipped(copy, account) == copy

\* multisig.reload(): the engine's copy of the group record, read when the
\* call started, is read again from the account; the copy is what the call
\* writes back when it returns
reload(copy, account) == account

ExecuteTransactionOnGroup(member, t) ==
    /\ ExecuteTransactionErr(multisig, transaction[t], member) = OK
    /\ LET r == execute_transaction(t, transaction[t], instruction[t],
                                    BatchAccounts(t, instruction[t], 1), 0)
           g == InvokeBatch(multisig, t, transaction[t], instruction[t], 1)
       IN  /\ r.err = OK
           /\ g.err = OK
           /\ transaction' = [transaction EXCEPT ![t] = r.tx]
           /\ invoked' = [invoked EXCEPT ![t] = @ \o r.calls]
           /\ multisig' = reload(multisig, g.ms)
    /\ UNCHANGED instruction

ExecuteInstructionOnGroup(member, t, ix_key) ==
    /\ ix_key[1] \in DOMAIN instruction
    /\ ix_key[2] \in DOMAIN instruction[ix_key[1]]
    /\ LET ms_ix == instruction[ix_key[1]][ix_key[2]]
           r == execute_instruction(t, transaction[t], ms_ix, StepAccounts(ms_ix), TRUE)
           g == invoke_signed(multisig, ms_ix, SignerSeeds(t, transaction[t], ms_ix))
       IN  /\ ExecuteInstructionErr(multisig, transaction[t], ix_key, ms_ix, member) = OK
           /\ r.err = OK
           /\ g.err = OK
           /\ transaction' = [transaction EXCEPT ![t] = r.tx]
           /\ instruction' = [instruction EXCEPT ![ix_key[1]][ix_key[2]] = r.ix]
           /\ invoked' = [invoked EXCEPT ![t] = @ \o r.calls]
           /\ multisig' = reload(multisig, g.ms)

\* the group of every key, any one of them a quorum, governed by its own
\* group authority 1
InitReload ==
    /\ multisig = create(AuthorityPda(1), 1, [i \in 1..NumKeys |-> i]).ms
    /\ transaction = << >>
    /\ instruction = << >>
    /\ invoked = << >>

NextReload ==
    \/ \E s \in Keys, a \in AuthorityIndexes :
          transaction = << >> /\ CreateTransaction(s, a)
    \/ \E s \in Keys, t \in TxIds, inc \in IncomingGroup :
          AddInstruction(s, t, inc, <<None, None, Default>>)
    \/ \E s \in Keys, t \in TxIds : ActivateTransaction(s, t)
    \/ \E s \in Keys, t \in TxIds : ApproveTransaction(s, t)
    \/ \E s \in Keys, t \in TxIds : ExecuteTransactionOnGroup(s, t)
    \/ \E s \in Keys, t \in TxIds, k \in 1..MaxIx :
          ExecuteInstructionOnGroup(s, t, <<t, k>>)

SpecReload == InitReload /\ [][NextReload]_vars

\* the operations an execute call invoked in this step, in order
NewCalls(t) == SubSeq(invoked'[t], Len(invoked[t]) + 1, Len(invoked'[t]))

\* the group record after the operations ks of proposal t ran on it in order
RECURSIVE GroupAfter(_, _, _)
GroupAfter(ms, t, ks) ==
    IF ks = << >> THEN ms
    ELSE GroupAfter(invoke_signed(ms, instruction[t][Head(ks)],
                                  SignerSeeds(t, transaction[t],
                                              instruction[t][Head(ks)])).ms,
                    t, Tail(ks))

\* C26: when an execute call completes, in either mode, the group record
\* holds exactly what the operations it invoked left there (members,
\* threshold, change index, external authority): the copy of the group the
\* call read when it started never replaces those values, and a call whose
\* operations leave the group alone leaves it unchanged.
C26_NoLostUpdate ==
    [][ \A t \in TxIds :
          (t \in DOMAIN invoked /\ invoked'[t] # invoked[t])
             => multisig' = GroupAfter(multisig, t,
                               [j \in 1..Len(NewCalls(t)) |-> NewCalls(t)[j].ix]) ]_vars

C26_Witness ==
    \E t \in TxIds :
       /\ transaction[t].status = Executed
       /\ Len(invoked[t]) = MaxIx
       /\ multisig.ms_change_index = t
       /\ Members # Keys
       /\ multisig.external_authority = AuthorityPda(2)

(***************************************************************************)
(* A governed group: three members with threshold 2, proposals created,    *)
(* activated and voted on while the external authority changes members and *)
(* threshold.                                                              *)
(***************************************************************************)
MaxGoverned == 2
GovernedKeys == 1..(NumKeys + 1)
GovernedAuthority == NumKeys + 2
GovernedSigners == GovernedKeys \cup {GovernedAuthority}

InitGoverned ==
    /\ multisig = create(GovernedAuthority, NumKeys, [i \in GovernedKeys |-> i]).ms
    /\ transaction = << >>
    /\ instruction = << >>
    /\ invoked = << >>

NextGoverned ==
    \/ \E s \in GovernedSigners, a \in AuthorityIndexes :
          multisig.transaction_index < MaxGoverned /\ CreateNumbered(s, a)
    \/ \E s \in GovernedSigners, t \in TxIds : ActivateTransaction(s, t)
    \/ \E s \in GovernedSigners, t \in TxIds : ApproveTransaction(s, t)
    \/ \E s \in GovernedSigners, t \in TxIds : RejectTransaction(s, t)
    \/ \E s \in GovernedSigners, k \in GovernedKeys : AddMember(s, k, TRUE)
    \/ \E s \in GovernedSigners, k \in GovernedKeys : RemoveMember(s, k)
    \/ \E s \in GovernedSigners, n \in Thresholds : ChangeThreshold(s, n)

SpecGoverned == InitGoverned /\ [][NextGoverned]_vars

\* C27: in every reachable state, a proposal that is Active and not
\* deprecated (transaction_index > ms_change_index) has fewer approvals than
\* the threshold, at most |members| - threshold rejections, and every
\* principal in its approved and rejected lists is a current member.
C27_ActiveVotesConsistent ==
    \A t \in TxIds :
       (transaction[t].status = Active /\ ~Deprecated(t))
          => /\ Len(transaction[t].approved) < multisig.threshold
             /\ Len(transaction[t].rejected) <= Len(multisig.keys) - multisig.threshold
             /\ Approved(t) \cup RejectedBy(t) \subseteq Members

C27_Witness ==
    \E t \in TxIds :
       /\ transaction[t].status = Active
       /\ ~Deprecated(t)
       /\ multisig.ms_change_index >= 1
       /\ Approved(t) # {}
       /\ RejectedBy(t) # {}

\* C28: for every proposal, in every reachable state, 0 <= executed_index
\* <= instruction_index; executed_index is non-zero only on a proposal that
\* has been ExecuteReady (it is ExecuteReady, Executed or Cancelled);
\* operation k carries the executed flag if and only if k <= executed_index;
\* a proposal executed by the atomic batch keeps executed_index 0 and no
\* flag.  In every step executed_index does not decrease, and it moves only
\* on an ExecuteReady proposal, by one.
C28_ExecutedIndex ==
    /\ [] \A t \in TxIds :
             /\ 0 <= transaction[t].executed_index
             /\ transaction[t].executed_index <= transaction[t].instruction_index
             /\ transaction[t].executed_index > 0
                   => transaction[t].status \in {ExecuteReady, Executed, Cancelled}
             /\ \A k \in DOMAIN instruction[t] :
                   instruction[t][k].executed <=> k <= transaction[t].executed_index
             /\ (\E i \in DOMAIN invoked[t] : IsAtomic(invoked[t][i]))
                   => /\ transaction[t].executed_index = 0
                      /\ \A k \in DOMAIN instruction[t] : ~instruction[t][k].executed
    /\ [][ \A t \in TxIds :
             /\ transaction'[t].executed_index >= transaction[t].executed_index
             /\ transaction'[t].executed_index # transaction[t].executed_index
                   => /\ transaction[t].status = ExecuteReady
                      /\ transaction'[t].executed_index = transaction[t].executed_index + 1 ]_vars

C28_Witness ==
    \E t \in TxIds :
       /\ transaction[t].status = Executed
       /\ transaction[t].instruction_index = 1
       /\ transaction[t].executed_index = 1
       /\ instruction[t][1].executed
       /\ Len(invoked[t]) = 1


====
